---- MODULE Spec2Model ----
(***************************************************************************)
(* Verification model of india-stocks-api: expiry discovery                *)
(* (core/brokers/base/base.py), process initialization and the day-scoped  *)
(* caches (core/__init__.py, core/brokers/__init__.py,                     *)
(* core/brokers/angel_one.py).                                             *)
(*                                                                         *)
(* Time is counted in minutes since the local midnight of day 0.  An       *)
(* upstream date string is modelled by the minute timestamp it parses to   *)
(* (NaT when it does not parse); a formatted YYYY-MM-DD string by its day  *)
(* number.                                                                 *)
(***************************************************************************)
EXTENDS Integers, Sequences, FiniteSets, TLC

VARIABLES
    now,            \* wall clock, minutes
    expiry_dates,   \* Broker.expiry_dates: function, DOMAIN = keys present
    cookies,        \* Broker.cookies
    calls,          \* one record per discovery call (unit of work)
    hist,           \* history: the events of each discovery call, in order
    main,           \* position of the main thread
    cache_file,     \* content of _cache/brokers_cache.json
    cache_dir,      \* whether the directory _cache exists
    lc,             \* the last load_cache() call
    jx,             \* the running jsonify_expiry call
    tok,            \* token cache of AngelOne and the last _fetch_tokens
    ft,             \* the sessions of the broker classes and the running fetch
    jp,             \* the running _json_parser call
    eq,             \* AngelOne.eq_tokens and the create_eq_tokens call
    ff,             \* the filter_future_dates call
    tp              \* the generate_verified_totp call

vars == <<now, expiry_dates, cookies, calls, hist, main, cache_file, cache_dir, lc, jx, tok,
         ft, jp, eq, ff, tp>>

----------------------------------------------------------------------------
\* Bounds of the model

MaxDay == 1          \* calendar days 0..MaxDay
MaxBody == 2         \* longest upstream expiry list
MaxThreads == 2      \* roots for which process initialization is modelled
MaxDates == 3        \* dates handed to filter_future_dates
MaxBase == 2         \* characters of a short TOTP base
MaxTries == 4        \* largest max_attempts handed to generate_verified_totp
MaxInstr == 2        \* rows of the instrument list
MaxFetches == 2      \* fetch calls in one run
MaxText == 4         \* characters of a response body
MaxRows == 2         \* rows of the option table given to jsonify_expiry

\* Program constants

MinutesPerDay == 1440
MaxAttempts == 5
NaT == -1

BNF == "BANKNIFTY"
NF == "NIFTY"
FNF == "FINNIFTY"
MIDCPNF == "MIDCPNIFTY"
SENSEX == "SENSEX"
BANKEX == "BANKEX"

NfoRoots == <<BNF, NF, FNF, MIDCPNF>>
BfoRoots == <<SENSEX, BANKEX>>
RootOrder == NfoRoots \o BfoRoots
Roots == {RootOrder[i] : i \in 1..Len(RootOrder)}
BourseRoots == {BfoRoots[i] : i \in 1..Len(BfoRoots)}

nfo_url == "https://www.nseindia.com/api/option-chain-indices"
bfo_url == "https://api.bseindia.com/BseIndiaAPI/api/ddlExpiry_IV/w"

----------------------------------------------------------------------------
\* Clock and calendar

Days == 0..MaxDay
Times == {d * MinutesPerDay + m : d \in Days, m \in {0, 1, MinutesPerDay - 1}}

\* datetime.fromtimestamp(t).date() / Timestamp.strftime("%Y-%m-%d")
DateOf(t) == t \div MinutesPerDay

\* the midnight timestamp a date-only string parses to
Midnight(d) == d * MinutesPerDay

----------------------------------------------------------------------------
\* Sequences

Range(s) == {s[i] : i \in 1..Len(s)}

IsSorted(s) == \A i \in 1..Len(s) : \A j \in i..Len(s) : s[i] <= s[j]

Count(s, x) == Cardinality({i \in 1..Len(s) : s[i] = x})

SelectKept(s, t) == SelectSeq(s, LAMBDA x : x >= t)

RECURSIVE Insert(_, _)
Insert(s, x) ==
    IF s = << >> THEN <<x>>
    ELSE IF x <= Head(s) THEN <<x>> \o s
    ELSE <<Head(s)>> \o Insert(Tail(s), x)

RECURSIVE sorted(_)
sorted(s) == IF s = << >> THEN << >> ELSE Insert(sorted(Tail(s)), Head(s))

Map(s, F(_)) == [i \in 1..Len(s) |-> F(s[i])]

\* dict assignment d[k] = v
Put(d, k, v) == [x \in DOMAIN d \cup {k} |-> IF x = k THEN v ELSE d[x]]

----------------------------------------------------------------------------
\* Broker.filter_future_dates: raises when a date does not parse, else keeps
\* the dates >= now, formats them and sorts.

\* mutant: the kept dates are returned in upstream order
filter_future_dates_unsorted(data, t) ==
    IF \E i \in 1..Len(data) : data[i] = NaT
    THEN [raised |-> TRUE, error |-> "ValueError", value |-> << >>]
    ELSE [raised |-> FALSE, error |-> "", value |-> Map(SelectKept(data, t), DateOf)]

\* mutant: a date that does not parse is dropped by dropna()
filter_future_dates_dropna(data, t) ==
    [raised |-> FALSE, error |-> "",
     value |-> sorted(Map(SelectKept(SelectSeq(data, LAMBDA x : x # NaT), t), DateOf))]

\* mutant: the failure is a kind of the package's errors module
filter_future_dates_input_error(data, t) ==
    IF \E i \in 1..Len(data) : data[i] = NaT
    THEN [raised |-> TRUE, error |-> "InputError", value |-> << >>]
    ELSE [raised |-> FALSE, error |-> "", value |-> sorted(Map(SelectKept(data, t), DateOf))]

\* lines 509-522: raise ValueError(...) if a date coerces to NaT, else
\* sorted(dates[dates >= now].dt.strftime("%Y-%m-%d"))
filter_future_dates(data, t) ==
    IF \E i \in 1..Len(data) : data[i] = NaT
    THEN [raised |-> TRUE, error |-> "ValueError", value |-> << >>]
    ELSE [raised |-> FALSE, error |-> "", value |-> sorted(Map(SelectKept(data, t), DateOf))]

----------------------------------------------------------------------------
\* Upstream requests and responses of expiry discovery

scrip_cd(root) ==
    IF root = SENSEX THEN "1" ELSE IF root = BANKEX THEN "12" ELSE "unbound"

nfo_primary_request(root) ==
    [url |-> nfo_url, params |-> {<<"symbol", root>>}]

nfo_fallback_request(root) ==
    [url |-> nfo_url, params |-> {<<"symbol", root>>}]

bfo_primary_request(root) ==
    [url |-> bfo_url, params |-> {<<"ProductType", "IO">>, <<"scrip_cd", scrip_cd(root)>>}]

bfo_fallback_request(root) ==
    [url |-> bfo_url, params |-> {<<"ProductType", "IO">>, <<"scrip_cd", "1">>}]

PrimaryRequest(root) ==
    IF root \in BourseRoots THEN bfo_primary_request(root) ELSE nfo_primary_request(root)

FallbackRequest(root) ==
    IF root \in BourseRoots THEN bfo_fallback_request(root) ELSE nfo_fallback_request(root)

\* the root whose expiries the upstream serves for a request
ServedRoot(req) ==
    IF req.url = nfo_url
    THEN CHOOSE r \in Roots : <<"symbol", r>> \in req.params
    ELSE IF <<"scrip_cd", "1">> \in req.params THEN SENSEX
    ELSE IF <<"scrip_cd", "12">> \in req.params THEN BANKEX
    ELSE "none"

DateStrings == {NaT} \cup {Midnight(d) : d \in Days}

SeqsUpTo(S, n) == UNION {[1..k -> S] : k \in 0..n}

Bodies == SeqsUpTo(DateStrings, MaxBody)

\* a request ends in a transport exception, a body that is no JSON, a JSON
\* body without the expiry keys, or a JSON body carrying an expiry list
NoResponse == [kind |-> "none", dates |-> << >>]
Responses ==
    {[kind |-> k, dates |-> << >>] : k \in {"exception", "not_json", "no_key"}}
    \cup {[kind |-> "ok", dates |-> b] : b \in Bodies}

\* mutant: the upstream list is stored as it came, formatted
Extract_unfiltered(resp, t) ==
    IF resp.kind = "ok"
    THEN [raised |-> FALSE, error |-> "", value |-> Map(resp.dates, DateOf)]
    ELSE [raised |-> TRUE, error |-> "Exception", value |-> << >>]

\* lines 559-561 / 571-573 / 623-627 / 637-641: parse, extract, filter
Extract(resp, t) ==
    IF resp.kind = "ok" THEN filter_future_dates(resp.dates, t)
    ELSE [raised |-> TRUE, error |-> "Exception", value |-> << >>]

----------------------------------------------------------------------------
\* Discovery calls.  A call is identified by who made it and for which root:
\* "sync" a synchronous call, "init" a thread of initialize_brokers, "core" a
\* thread of the package's module-level start.  The record of a call is its
\* frame: position, loop counter, the request last issued, and how it ended.

Kinds == {"sync", "init", "core"}
Units == Kinds \X Roots
RootOf(u) == u[2]

NoRequest == [url |-> "", params |-> {}]

IdleCall == [pc |-> "idle", attempt |-> 0, result |-> "none", req |-> NoRequest]

\* entry of download_expiry_dates_nfo / download_expiry_dates_bfo
StartCall == [IdleCall EXCEPT !.pc = "primary"]

Running(c) == c.pc \in {"primary", "fallback", "sleep"}

\* the calls that are at a step
At(step) == {u \in Units : calls[u].pc = step}

\* mutant: the entry is assigned before the dates are validated
Request_store_first(u, step, req, next, resp) ==
    /\ calls[u].pc = step
    /\ LET out == Extract(resp, now)
       IN  IF out.raised
           THEN /\ calls' = [calls EXCEPT ![u] = [@ EXCEPT !.pc = next, !.req = req]]
                /\ expiry_dates' = IF resp.kind = "ok"
                                   THEN Put(expiry_dates, RootOf(u), << >>)
                                   ELSE expiry_dates
           ELSE /\ calls' = [calls EXCEPT ![u] =
                               [pc |-> "done", attempt |-> 0, result |-> "stored", req |-> req]]
                /\ expiry_dates' = Put(expiry_dates, RootOf(u), out.value)
    /\ UNCHANGED <<now, cookies, main, cache_file, cache_dir, lc, jx, tok, ft, jp, eq, ff, tp>>

\* mutant: the table is rebound to a new dict holding the root's entry
Request_rebinds(u, step, req, next, resp) ==
    /\ calls[u].pc = step
    /\ LET out == Extract(resp, now)
       IN  IF out.raised
           THEN /\ calls' = [calls EXCEPT ![u] = [@ EXCEPT !.pc = next, !.req = req]]
                /\ UNCHANGED expiry_dates
           ELSE /\ calls' = [calls EXCEPT ![u] =
                               [pc |-> "done", attempt |-> 0, result |-> "stored", req |-> req]]
                /\ expiry_dates' = Put(<< >>, RootOf(u), out.value)
    /\ UNCHANGED <<now, cookies, main, cache_file, cache_dir, lc, jx, tok, ft, jp, eq, ff, tp>>

\* one request of a call, answered by resp: on success store and return, on
\* any exception go on to the next step of the attempt
Request(u, step, req, next, resp) ==
    /\ calls[u].pc = step
    /\ LET out == Extract(resp, now)
       IN  IF out.raised
           THEN /\ calls' = [calls EXCEPT ![u] = [@ EXCEPT !.pc = next, !.req = req]]
                /\ UNCHANGED expiry_dates
           ELSE /\ calls' = [calls EXCEPT ![u] =
                               [pc |-> "done", attempt |-> 0, result |-> "stored", req |-> req]]
                /\ expiry_dates' = Put(expiry_dates, RootOf(u), out.value)
    /\ UNCHANGED <<now, cookies, main, cache_file, cache_dir, lc, jx, tok, ft, jp, eq, ff, tp>>

Primary(u, resp) == Request(u, "primary", PrimaryRequest(RootOf(u)), "fallback", resp)

Fallback(u, resp) == Request(u, "fallback", FallbackRequest(RootOf(u)), "sleep", resp)

\* mutant: the loop runs once more than range(5)
Sleep_off_by_one(u) ==
    /\ calls[u].pc = "sleep"
    /\ calls' = [calls EXCEPT ![u] =
                    IF calls[u].attempt + 1 <= MaxAttempts
                    THEN [pc |-> "primary", attempt |-> calls[u].attempt + 1,
                          result |-> "none", req |-> NoRequest]
                    ELSE [pc |-> "done", attempt |-> 0, result |-> "gaveup", req |-> NoRequest]]
    /\ UNCHANGED <<now, expiry_dates, cookies, main, cache_file, cache_dir, lc, jx, tok, ft, jp, eq, ff, tp>>

\* mutant: the loop is "while True"
Sleep_forever(u) ==
    /\ calls[u].pc = "sleep"
    /\ calls' = [calls EXCEPT ![u] = [pc |-> "primary", attempt |-> calls[u].attempt,
                                     result |-> "none", req |-> NoRequest]]
    /\ UNCHANGED <<now, expiry_dates, cookies, main, cache_file, cache_dir, lc, jx, tok, ft, jp, eq, ff, tp>>

\* sleep(5), then the next iteration of range(5) or the end of the function
Sleep(u) ==
    /\ calls[u].pc = "sleep"
    /\ calls' = [calls EXCEPT ![u] =
                    IF calls[u].attempt + 1 < MaxAttempts
                    THEN [pc |-> "primary", attempt |-> calls[u].attempt + 1,
                          result |-> "none", req |-> NoRequest]
                    ELSE [pc |-> "done", attempt |-> 0, result |-> "gaveup", req |-> NoRequest]]
    /\ UNCHANGED <<now, expiry_dates, cookies, main, cache_file, cache_dir, lc, jx, tok, ft, jp, eq, ff, tp>>

\* time passes, observed at the instants of T
Pass(T) ==
    /\ \E t \in T : t > now /\ now' = t
    /\ UNCHANGED <<expiry_dates, cookies, calls, hist, main, cache_file, cache_dir, lc, jx, tok, ft, jp, eq, ff, tp>>

Tick == Pass(Times)

\* history of a call: the event, the request issued, and the response when it
\* was stored (a response that raised is recorded as Failed)
Failed == [kind |-> "failed", dates |-> << >>]
Record(u, ev, resp) ==
    hist' = [hist EXCEPT ![u] =
                Append(@, [ev |-> ev, req |-> calls'[u].req,
                           resp |-> IF ev = "sleep" THEN NoResponse
                                    ELSE IF calls'[u].result = "stored" THEN resp
                                    ELSE Failed])]

Events(u) == [i \in 1..Len(hist[u]) |-> hist[u][i].ev]

----------------------------------------------------------------------------
\* Placeholders of the parts of the state a specification does not use

NoFile == [kind |-> "nofile", has_ts |-> FALSE, timestamp |-> 0,
           cookies |-> "none", expiry_dates |-> << >>]
NoJx == [pc |-> "none", i |-> 0, df |-> << >>, fault |-> "", out |-> << >>]
\* datetime.isoformat() and datetime.fromisoformat(): the text holds the
\* calendar date and the time of day
isoformat(t) == [date |-> t \div MinutesPerDay, time |-> t % MinutesPerDay]
fromisoformat(text) == text.date * MinutesPerDay + text.time

\* the token cache file _cache/angelone_tokens_cache.json: "nofile",
\* "garbage" (no JSON), "empty" (the JSON object {}) or "json", an object
\* with "data" and with or without a usable "timestamp"
NoTokFile == [kind |-> "nofile", has_ts |-> FALSE, timestamp |-> isoformat(0), data |-> << >>]
NoFetch == [outcome |-> "none", at |-> 0, seen |-> NoTokFile, error |-> "",
            fetches |-> 0, decodes |-> 0, wrote |-> FALSE, ret |-> << >>]
NoTok == [file |-> NoTokFile, last |-> NoFetch]
NoHist == [u \in Units |-> << >>]

\* the classes whose fetch is called, and their _session attribute when the
\* classes have been defined: Broker._session = None (0), AngelOne._session =
\* Broker._create_session() (session number 1)
Namespaces == {"Broker", "AngelOne"}
ClassSession == [ns \in Namespaces |-> IF ns = "AngelOne" THEN 1 ELSE 0]
NoOutcome == [status |-> 0, kind |-> "", msg |-> ""]
NoFetchCall == [pc |-> "idle", ns |-> "", method |-> "", scheme |-> "", session |-> 0,
                sent |-> 0, retries |-> 0, first |-> 0, last |-> NoOutcome,
                error |-> "", payload |-> {}, request_calls |-> 0]
NoFt == [session |-> ClassSession, created |-> 1, fetches |-> 0, call |-> NoFetchCall]
NoEq == [pc |-> "none", json_list |-> << >>, eq_tokens |-> << >>, before |-> << >>,
         error |-> "", message |-> ""]
NoFf == [pc |-> "none", data |-> << >>, at |-> 0, error |-> "", value |-> << >>]
NoTp == [pc |-> "none", totpbase |-> << >>, max_attempts |-> 0, generated |-> 0,
         verified |-> 0, failed |-> 0, error |-> "", message |-> [text |-> "", attempts |-> 0]]

\* a decoded JSON value: a number or a list of values
NoValue == [type |-> "none", n |-> 0, items |-> << >>]
NoJp == [pc |-> "none", body |-> << >>, error |-> "", tags |-> {}, value |-> NoValue]
NoLoad == [at |-> 0, seen |-> NoFile, raised |-> "", hit |-> FALSE, called |-> FALSE]

----------------------------------------------------------------------------
\* Specification of one discovery call made by a caller for any root, from
\* any state of the expiry table.

SomeDates == <<0, 1, 2>>
InitTables(root) == {[r \in S |-> SomeDates] : S \in {{}, {root}, Roots}}

InitCall ==
    /\ now \in Times
    /\ cookies = "jar"
    /\ \E r \in Roots :
         /\ expiry_dates \in InitTables(r)
         /\ calls = [u \in Units |-> IF u = <<"sync", r>> THEN StartCall ELSE IdleCall]
    /\ hist = NoHist
    /\ main = [pc |-> "caller", i |-> 0, requests |-> 0]
    /\ cache_file = NoFile
    /\ cache_dir = FALSE
    /\ lc = NoLoad
    /\ jx = NoJx
    /\ tok = NoTok
    /\ ft = NoFt
    /\ jp = NoJp
    /\ eq = NoEq
    /\ ff = NoFf
    /\ tp = NoTp

CallPrimary ==
    \E u \in At("primary"), resp \in Responses : Primary(u, resp) /\ Record(u, "primary", resp)

CallFallback ==
    \E u \in At("fallback"), resp \in Responses : Fallback(u, resp) /\ Record(u, "fallback", resp)

CallSleep == \E u \in At("sleep") : Sleep(u) /\ Record(u, "sleep", NoResponse)

NextCall == CallPrimary \/ CallFallback \/ CallSleep \/ Tick

SpecCall == InitCall /\ [][NextCall]_vars

----------------------------------------------------------------------------
\* Claims about one discovery call (SpecCall)

EventCycle == <<"primary", "fallback", "sleep">>

\* C1: the events of a discovery call follow the order primary request,
\* fallback request, sleep, repeated; a call makes at most 5 primary requests,
\* 5 fallback requests and 5 sleeps, and has returned after the fifth sleep.
C1_EventOrder ==
    \A u \in Units :
        LET l == Events(u)
        IN  /\ \A i \in 1..Len(l) : l[i] = EventCycle[((i - 1) % 3) + 1]
            /\ \A e \in Range(EventCycle) : Count(l, e) <= 5
            /\ Count(l, "sleep") = 5 => calls[u].pc = "done"
            /\ calls[u].pc = "primary" => (l = << >> \/ l[Len(l)] = "sleep")
            /\ calls[u].pc = "fallback" => (l # << >> /\ l[Len(l)] = "primary")
            /\ calls[u].pc = "sleep" => (l # << >> /\ l[Len(l)] = "fallback")

C1_Witness ==
    \E u \in Units :
        /\ calls[u].pc = "done"
        /\ Len(hist[u]) = 15
        /\ Count(Events(u), "sleep") = 5

\* C2: the step in which a request of a call succeeds sets the root's entry
\* to the dates of the body that are >= now, each formatted, with their
\* multiplicity, sorted ascending, and ends the call; a call that has
\* returned makes no further request and does not sleep.
C2_SuccessStoresAndReturns ==
    [][\A u \in Units :
          /\ (calls[u].result = "none" /\ calls'[u].result = "stored") =>
                LET r == RootOf(u)
                    body == hist'[u][Len(hist'[u])].resp.dates
                IN  /\ calls'[u].pc = "done"
                    /\ r \in DOMAIN expiry_dates'
                    /\ IsSorted(expiry_dates'[r])
                    /\ \A d \in Days \cup Range(expiry_dates'[r]) :
                          Count(expiry_dates'[r], d)
                            = Cardinality({i \in 1..Len(body) :
                                             body[i] >= now /\ DateOf(body[i]) = d})
          /\ calls[u].pc = "done" => (calls'[u] = calls[u] /\ hist'[u] = hist[u])
      ]_vars

C2_Witness ==
    \E u \in Units :
        /\ calls[u].result = "stored"
        /\ Events(u) = <<"primary", "fallback">>
        /\ LET body == hist[u][2].resp.dates
           IN  Len(body) = 2 /\ body[1] > body[2]
        /\ Len(expiry_dates[RootOf(u)]) = 2

\* C3: a call whose five attempts all fail returns normally (it gives up after
\* 5 primary and 5 fallback requests), and no step of a call other than a
\* successful request changes the expiry table, so the root's entry is what it
\* was before the call.
C3_GiveUpLeavesTable ==
    /\ [](\A u \in Units :
            /\ calls[u].pc = "done" => calls[u].result \in {"stored", "gaveup"}
            /\ calls[u].result = "gaveup" =>
                  /\ calls[u].pc = "done"
                  /\ Count(Events(u), "primary") = 5
                  /\ Count(Events(u), "fallback") = 5
                  /\ \A i \in 1..Len(hist[u]) :
                        hist[u][i].ev = "sleep" \/ hist[u][i].resp = Failed)
    /\ [][(\A u \in Units : calls'[u].result = "stored" => calls[u].result = "stored")
            => expiry_dates' = expiry_dates]_vars

C3_Witness ==
    \E u \in Units :
        /\ calls[u].result = "gaveup"
        /\ RootOf(u) \notin DOMAIN expiry_dates
        /\ Len(hist[u]) = 15

\* C4: the fallback request of an attempt has the endpoint and the query
\* parameters of the primary request of the same root, so a stored list was
\* served for the root it is stored under.
C4_FallbackSameRequest ==
    \A u \in Units :
        \A i \in 1..Len(hist[u]) :
            hist[u][i].ev = "fallback" =>
                /\ hist[u][i].req = PrimaryRequest(RootOf(u))
                /\ ServedRoot(hist[u][i].req) = RootOf(u)

----------------------------------------------------------------------------
\* The process-wide cache file _cache/brokers_cache.json.  kind "nofile": the
\* file does not exist; "garbage": its content is no JSON; "json": a JSON
\* object, with or without a usable "timestamp" field.

CacheEntry(t, jar, table) ==
    [kind |-> "json", has_ts |-> TRUE, timestamp |-> t, cookies |-> jar, expiry_dates |-> table]

\* mutant: validity by age (less than one day old) instead of by calendar date
load_cache_by_age(file, t) ==
    IF file.kind = "nofile" THEN [raised |-> "", hit |-> FALSE]
    ELSE IF file.kind = "garbage" THEN [raised |-> "JSONDecodeError", hit |-> FALSE]
    ELSE IF ~file.has_ts THEN [raised |-> "KeyError", hit |-> FALSE]
    ELSE [raised |-> "", hit |-> (t - file.timestamp < MinutesPerDay)]

\* load_cache(): hit means the function returns the cache, otherwise None
load_cache(file, t) ==
    IF file.kind = "nofile" THEN [raised |-> "", hit |-> FALSE]
    ELSE IF file.kind = "garbage" THEN [raised |-> "JSONDecodeError", hit |-> FALSE]
    ELSE IF ~file.has_ts THEN [raised |-> "KeyError", hit |-> FALSE]
    ELSE [raised |-> "", hit |-> (DateOf(file.timestamp) = DateOf(t))]

----------------------------------------------------------------------------
\* Process initialization: importing the package runs initialize_brokers()
\* (core/brokers/__init__.py) and then the module-level start of
\* core/__init__.py.  The threads are modelled for the last MaxThreads roots
\* of the start order.

FirstModelled == IF Len(RootOrder) > MaxThreads THEN Len(RootOrder) - MaxThreads + 1 ELSE 1
ThreadOrder == SubSeq(RootOrder, FirstModelled, Len(RootOrder))
ThreadRoots == Range(ThreadOrder)

\* initialize_brokers(), lines 61-66: take the cache or go on to fetch
InitLoad ==
    /\ main.pc = "initialize_brokers"
    /\ LET r == load_cache(cache_file, now)
       IN  /\ lc' = [at |-> now, seen |-> cache_file, raised |-> r.raised, hit |-> r.hit,
                     called |-> TRUE]
           /\ IF r.raised # ""
              THEN /\ main' = [main EXCEPT !.pc = "crashed", !.i = 0]
                   /\ UNCHANGED <<cookies, expiry_dates>>
              ELSE IF r.hit
              THEN /\ cookies' = cache_file.cookies
                   /\ expiry_dates' = cache_file.expiry_dates
                   /\ main' = [main EXCEPT !.pc = "core_cookies", !.i = 0]
              ELSE /\ main' = [main EXCEPT !.pc = "init_cookies", !.i = 0]
                   /\ UNCHANGED <<cookies, expiry_dates>>
    /\ UNCHANGED <<now, calls, hist, cache_file, cache_dir, jx, tok, ft, jp, eq, ff, tp>>

\* the request for the cookie jar: lines 84-88 of both modules
Cookies(at, next) ==
    /\ main.pc = at
    /\ \E ok \in BOOLEAN :
         IF ok THEN /\ cookies' = "jar"
                    /\ main' = [pc |-> next, i |-> 1, requests |-> main.requests + 1]
         ELSE /\ main' = [pc |-> "crashed", i |-> 0, requests |-> main.requests + 1]
              /\ UNCHANGED cookies
    /\ UNCHANGED <<now, expiry_dates, calls, hist, cache_file, cache_dir, lc, jx, tok, ft, jp, eq, ff, tp>>

InitCookies == Cookies("init_cookies", "init_start")

\* Thread(target=..., args=(root,)).start() for the next root of the loops
StartThread(at, kind, next) ==
    /\ main.pc = at
    /\ calls' = [calls EXCEPT ![<<kind, ThreadOrder[main.i]>>] = StartCall]
    /\ main' = IF main.i < Len(ThreadOrder) THEN [main EXCEPT !.i = @ + 1]
               ELSE [main EXCEPT !.pc = next, !.i = 1]
    /\ UNCHANGED <<now, expiry_dates, cookies, hist, cache_file, cache_dir, lc, jx, tok, ft, jp, eq, ff, tp>>

InitStart == StartThread("init_start", "init", "init_join")

\* thread.join() for the next thread of the list
InitJoin ==
    /\ main.pc = "init_join"
    /\ calls[<<"init", ThreadOrder[main.i]>>].pc = "done"
    /\ main' = IF main.i < Len(ThreadOrder) THEN [main EXCEPT !.i = @ + 1]
               ELSE [main EXCEPT !.pc = "init_save", !.i = 0]
    /\ UNCHANGED <<now, expiry_dates, cookies, calls, hist, cache_file, cache_dir, lc, jx, tok, ft, jp, eq, ff, tp>>

\* save_cache({timestamp, cookies, expiry_dates}); initialize_brokers returns
InitSave ==
    /\ main.pc = "init_save"
    /\ cache_dir' = TRUE
    /\ cache_file' = CacheEntry(now, cookies, expiry_dates)
    /\ main' = [main EXCEPT !.pc = "core_cookies", !.i = 0]
    /\ UNCHANGED <<now, expiry_dates, cookies, calls, hist, lc, jx, tok, ft, jp, eq, ff, tp>>

CoreCookies == Cookies("core_cookies", "core_check")

\* core/__init__.py line 90: if not Broker.expiry_dates
CoreCheck ==
    /\ main.pc = "core_check"
    /\ main' = IF DOMAIN expiry_dates = {} THEN [main EXCEPT !.pc = "core_start", !.i = 1]
               ELSE [main EXCEPT !.pc = "ready", !.i = 0]
    /\ UNCHANGED <<now, expiry_dates, cookies, calls, hist, cache_file, cache_dir, lc, jx, tok, ft, jp, eq, ff, tp>>

\* core/__init__.py lines 91-95: the threads are started and not joined
CoreStart == StartThread("core_start", "core", "ready")

\* the steps of the discovery threads
ThreadResponses ==
    {[kind |-> "exception", dates |-> << >>], [kind |-> "ok", dates |-> <<Midnight(MaxDay)>>]}

ThreadPrimary ==
    \E u \in At("primary"), resp \in ThreadResponses : Primary(u, resp) /\ UNCHANGED hist

ThreadFallback ==
    \E u \in At("fallback"), resp \in ThreadResponses : Fallback(u, resp) /\ UNCHANGED hist

ThreadSleep == \E u \in At("sleep") : Sleep(u) /\ UNCHANGED hist

\* initialization is observed at the first and the last minute of a day
InitTimes == {d * MinutesPerDay + m : d \in Days, m \in {0, MinutesPerDay - 1}}

InitTick == Pass(InitTimes)

\* the cache file left by an earlier run of the process, if any
EarlierTables == {[r \in S |-> SomeDates] : S \in {{}, {ThreadOrder[1]}, ThreadRoots}}
InitCacheFiles ==
    {NoFile, [NoFile EXCEPT !.kind = "garbage"], [NoFile EXCEPT !.kind = "json"]}
    \cup {CacheEntry(t, "jar", table) : t \in InitTimes, table \in EarlierTables}

Init ==
    /\ now \in InitTimes
    /\ cache_file \in {f \in InitCacheFiles : f.timestamp <= now}
    /\ cache_dir = (cache_file.kind # "nofile")
    /\ lc = NoLoad
    /\ expiry_dates = << >>
    /\ cookies = "none"
    /\ calls = [u \in Units |-> IdleCall]
    /\ hist = NoHist
    /\ main = [pc |-> "initialize_brokers", i |-> 0, requests |-> 0]
    /\ jx = NoJx
    /\ tok = NoTok
    /\ ft = NoFt
    /\ jp = NoJp
    /\ eq = NoEq
    /\ ff = NoFf
    /\ tp = NoTp

Next ==
    \/ InitLoad
    \/ InitCookies
    \/ InitStart
    \/ InitJoin
    \/ InitSave
    \/ CoreCookies
    \/ CoreCheck
    \/ CoreStart
    \/ ThreadPrimary
    \/ ThreadFallback
    \/ ThreadSleep
    \/ InitTick

Spec == Init /\ [][Next]_vars

\* number of discovery units started for a root so far
Started(r) == Cardinality({k \in {"init", "core"} : calls[<<k, r>>].pc # "idle"})

\* C5: when initialization has completed, every discovery thread started
\* during it has finished.
C5_JoinBarrier ==
    main.pc = "ready" => \A u \in Units : ~Running(calls[u])

\* C6: at most one discovery unit is ever started per root.
C6_OneUnitPerRoot ==
    \A r \in Roots : Started(r) <= 1

\* C13: when initialization finds a valid (today's) cache entry, it takes
\* the cookie jar and the expiry table from it, makes no network request and
\* starts no discovery unit.
C13_HitSkipsProducer ==
    (lc.called /\ lc.hit) =>
        /\ main.requests = 0
        /\ \A u \in Units : calls[u].pc = "idle"


----------------------------------------------------------------------------
\* Broker.jsonify_expiry.  The option table is a sequence of rows; the Token
\* of a row is its position in the table given by the caller.

OptionTypes == {"CE", "PE"}
RowRoots == {BANKEX}
RowExpiries == {0, 1, 2}
RowShapes == [Root : RowRoots, Expiry : RowExpiries, Option : OptionTypes]

MakeRow(shape, token) ==
    [Root |-> shape.Root, Expiry |-> shape.Expiry, Option |-> shape.Option,
     StrikePrice |-> "strike", LotSize |-> <<"lot", token>>, Token |-> token, ExpiryName |-> ""]

DataFrames == {[i \in 1..Len(sh) |-> MakeRow(sh[i], i)] : sh \in SeqsUpTo(RowShapes, MaxRows)}

\* data_frame.sort_values(by=["Expiry"]): the default sort is not stable, so
\* rows of equal Expiry come in any order
SortedByExpiry(df) ==
    LET n == Len(df)
        perms == {p \in [1..n -> 1..n] : \A i \in 1..n : \E j \in 1..n : p[j] = i}
    IN  {s \in {[i \in 1..n |-> df[p[i]]] : p \in perms} :
            \A i \in 1..n : \A j \in i..n : s[i].Expiry <= s[j].Expiry}

\* Series.unique(): the values in order of first appearance
RECURSIVE unique(_)
unique(s) ==
    IF s = << >> THEN << >>
    ELSE LET front == unique(SubSeq(s, 1, Len(s) - 1))
             x == s[Len(s)]
         IN  IF x \in Range(front) THEN front ELSE Append(front, x)

Column(df, F(_)) == [i \in 1..Len(df) |-> F(df[i])]
ExpiryCol(row) == row.Expiry
LotSizeCol(row) == row.LotSize

\* lines 698-739: the placeholders of expiry_data
EmptyBucket == [filled |-> FALSE, CE |-> {}, PE |-> {}]
Undefined == <<"nan", 0>>
\* mutant: the placeholders name five of the six roots
Placeholders_partial ==
    [CURRENT |-> [r \in Roots \ {BNF} |-> EmptyBucket],
     NEXT |-> [r \in Roots |-> EmptyBucket],
     FAR |-> [r \in Roots |-> EmptyBucket],
     Expiry |-> [r \in Roots |-> << >>],
     LotSize |-> [r \in Roots |-> Undefined]]

Placeholders ==
    [CURRENT |-> [r \in Roots |-> EmptyBucket],
     NEXT |-> [r \in Roots |-> EmptyBucket],
     FAR |-> [r \in Roots |-> EmptyBucket],
     Expiry |-> [r \in Roots |-> << >>],
     LotSize |-> [r \in Roots |-> Undefined]]

\* mutant: every record of a group is kept
Bucket_every_record(small_df, expiry, name) ==
    LET dfex == SelectSeq(small_df, LAMBDA row : row.Expiry = expiry)
        recs(o) == {[dfex[i] EXCEPT !.ExpiryName = name] :
                       i \in {j \in 1..Len(dfex) : dfex[j].Option = o}}
    IN  IF dfex = << >> THEN EmptyBucket
        ELSE [filled |-> TRUE, CE |-> recs("CE"), PE |-> recs("PE")]

\* lines 769-776: dfex tagged with the bucket name and grouped by
\* (Option, StrikePrice), the first record of each group kept; the bucket is
\* assigned inside the loop over the groups, so it stays the placeholder when
\* dfex has no rows
Bucket(small_df, expiry, name) ==
    LET dfex == SelectSeq(small_df, LAMBDA row : row.Expiry = expiry)
        first(o) == {i \in 1..Len(dfex) :
                        /\ dfex[i].Option = o
                        /\ \A j \in 1..(i - 1) :
                              ~(dfex[j].Option = o /\ dfex[j].StrikePrice = dfex[i].StrikePrice)}
        recs(o) == {[dfex[i] EXCEPT !.ExpiryName = name] : i \in first(o)}
    IN  IF dfex = << >> THEN EmptyBucket
        ELSE [filled |-> TRUE, CE |-> recs("CE"), PE |-> recs("PE")]

\* lines 741: sort; the loop over the roots starts
JxSort ==
    /\ jx.pc = "start"
    /\ \E s \in SortedByExpiry(jx.df) :
         jx' = [jx EXCEPT !.pc = "check", !.i = 1, !.df = s, !.out = Placeholders]
    /\ UNCHANGED <<now, expiry_dates, cookies, calls, hist, main, cache_file, cache_dir, lc, tok, ft, jp, eq, ff, tp>>

\* mutant: every root is discovered again
JxCheck_always ==
    /\ jx.pc = "check"
    /\ calls' = [calls EXCEPT ![<<"sync", RootOrder[jx.i]>>] = StartCall]
    /\ jx' = [jx EXCEPT !.pc = "discover"]
    /\ UNCHANGED <<now, expiry_dates, cookies, hist, main, cache_file, cache_dir, lc, tok, ft, jp, eq, ff, tp>>

\* lines 751-755: a root missing from the table is discovered synchronously
JxCheck ==
    /\ jx.pc = "check"
    /\ LET root == RootOrder[jx.i]
       IN  IF root \notin DOMAIN expiry_dates
           THEN /\ calls' = [calls EXCEPT ![<<"sync", root>>] = StartCall]
                /\ jx' = [jx EXCEPT !.pc = "discover"]
           ELSE /\ jx' = [jx EXCEPT !.pc = "bucket"]
                /\ UNCHANGED calls
    /\ UNCHANGED <<now, expiry_dates, cookies, hist, main, cache_file, cache_dir, lc, tok, ft, jp, eq, ff, tp>>

\* the discovery call returns
JxResume ==
    /\ jx.pc = "discover"
    /\ calls[<<"sync", RootOrder[jx.i]>>].pc = "done"
    /\ jx' = [jx EXCEPT !.pc = "bucket"]
    /\ UNCHANGED <<now, expiry_dates, cookies, calls, hist, main, cache_file, cache_dir, lc, tok, ft, jp, eq, ff, tp>>

\* the position after the body of the loop for root number i
JxAdvance(i) == IF i < Len(RootOrder) THEN [pc |-> "check", i |-> i + 1] ELSE [pc |-> "returned", i |-> i]

\* mutant: the expiry list of the root is read before its rows are counted
JxBucket_table_first ==
    /\ jx.pc = "bucket"
    /\ LET root == RootOrder[jx.i]
           small_df == SelectSeq(jx.df, LAMBDA row : row.Root = root)
           nxt == JxAdvance(jx.i)
       IN  IF root \notin DOMAIN expiry_dates
           THEN jx' = [jx EXCEPT !.pc = "raised", !.fault = "KeyError"]
           ELSE IF Len(expiry_dates[root]) < 3
           THEN jx' = [jx EXCEPT !.pc = "raised", !.fault = "IndexError"]
           ELSE IF small_df = << >>
           THEN jx' = [jx EXCEPT !.pc = nxt.pc, !.i = nxt.i]
           ELSE LET today == DateOf(now)
                    expiries == SelectSeq(unique(Column(small_df, ExpiryCol)), LAMBDA e : e >= today)
                    lotsize == unique(Column(small_df, LotSizeCol))[1]
                    e == expiry_dates[root]
                IN  jx' = [jx EXCEPT
                             !.pc = nxt.pc, !.i = nxt.i,
                             !.out.CURRENT[root] = Bucket(small_df, e[1], "CURRENT"),
                             !.out.NEXT[root] = Bucket(small_df, e[2], "NEXT"),
                             !.out.FAR[root] = Bucket(small_df, e[3], "FAR"),
                             !.out.Expiry[root] = expiries,
                             !.out.LotSize[root] = lotsize]
    /\ UNCHANGED <<now, expiry_dates, cookies, calls, hist, main, cache_file, cache_dir, lc, tok, ft, jp, eq, ff, tp>>

\* lines 756-781: the rows of the root are bucketized
JxBucket ==
    /\ jx.pc = "bucket"
    /\ LET root == RootOrder[jx.i]
           small_df == SelectSeq(jx.df, LAMBDA row : row.Root = root)
           nxt == JxAdvance(jx.i)
       IN  IF small_df = << >>
           THEN jx' = [jx EXCEPT !.pc = nxt.pc, !.i = nxt.i]
           ELSE IF root \notin DOMAIN expiry_dates
           THEN jx' = [jx EXCEPT !.pc = "raised", !.fault = "KeyError"]
           ELSE IF Len(expiry_dates[root]) < 3
           THEN jx' = [jx EXCEPT !.pc = "raised", !.fault = "IndexError"]
           ELSE LET today == DateOf(now)
                    expiries == SelectSeq(unique(Column(small_df, ExpiryCol)), LAMBDA e : e >= today)
                    lotsize == unique(Column(small_df, LotSizeCol))[1]
                    e == expiry_dates[root]
                IN  jx' = [jx EXCEPT
                             !.pc = nxt.pc, !.i = nxt.i,
                             !.out.CURRENT[root] = Bucket(small_df, e[1], "CURRENT"),
                             !.out.NEXT[root] = Bucket(small_df, e[2], "NEXT"),
                             !.out.FAR[root] = Bucket(small_df, e[3], "FAR"),
                             !.out.Expiry[root] = expiries,
                             !.out.LotSize[root] = lotsize]
    /\ UNCHANGED <<now, expiry_dates, cookies, calls, hist, main, cache_file, cache_dir, lc, tok, ft, jp, eq, ff, tp>>

\* the expiry table a caller of jsonify_expiry may find: complete, with one
\* root missing, or with lists shorter than three
JxTables ==
    {[r \in Roots |-> SomeDates], [r \in Roots |-> <<MaxDay>>]}
    \cup {[r \in Roots \ {x} |-> SomeDates] : x \in Roots}

InitJsonify ==
    /\ now \in InitTimes
    /\ expiry_dates \in JxTables
    /\ cookies = "jar"
    /\ calls = [u \in Units |-> IdleCall]
    /\ hist = NoHist
    /\ main = [pc |-> "caller", i |-> 0, requests |-> 0]
    /\ cache_file = NoFile
    /\ cache_dir = FALSE
    /\ lc = NoLoad
    /\ \E df \in DataFrames : jx = [NoJx EXCEPT !.pc = "start", !.df = df]
    /\ tok = NoTok
    /\ ft = NoFt
    /\ jp = NoJp
    /\ eq = NoEq
    /\ ff = NoFf
    /\ tp = NoTp

NextJsonify ==
    \/ JxSort
    \/ JxCheck
    \/ JxResume
    \/ JxBucket
    \/ ThreadPrimary
    \/ ThreadFallback
    \/ ThreadSleep
    \/ InitTick

SpecJsonify == InitJsonify /\ [][NextJsonify]_vars

\* C7: jsonify_expiry never fails with a missing-key fault, whatever the
\* expiry table holds.
C7_NoMissingKeyFault ==
    jx.fault # "KeyError"

\* the rows of a root in the table given to jsonify_expiry
RowsOf(root) == SelectSeq(jx.df, LAMBDA row : row.Root = root)
BucketNames == <<"CURRENT", "NEXT", "FAR">>

C28_DiscoveryWhenAbsent ==
    [][\A r \in Roots :
         LET u == <<"sync", r>>
         IN  /\ (calls[u].pc = "idle" /\ calls'[u].pc # "idle") =>
                  /\ jx.pc = "check" /\ RootOrder[jx.i] = r
                  /\ r \notin DOMAIN expiry_dates
                  /\ calls'[u] = StartCall /\ jx'.pc = "discover"
             /\ calls[u].pc = "done" => calls'[u] = calls[u]
             /\ (jx.pc = "check" /\ jx' # jx /\ RootOrder[jx.i] = r) =>
                  IF r \in DOMAIN expiry_dates
                  THEN calls' = calls /\ jx'.pc = "bucket"
                  ELSE calls'[u] = StartCall /\ jx'.pc = "discover"
             /\ Running(calls'[u]) => (jx'.pc = "discover" /\ RootOrder[jx'.i] = r)
             /\ calls'[u].req # NoRequest =>
                  calls'[u].req.url = IF r \in {SENSEX, BANKEX} THEN bfo_url ELSE nfo_url
      ]_vars

\* the rows of BANKEX are reached after its discovery asked the bourse
C28_Witness ==
    /\ jx.pc = "bucket" /\ RootOrder[jx.i] = BANKEX
    /\ calls[<<"sync", BANKEX>>].pc = "done"
    /\ calls[<<"sync", BANKEX>>].req.url = bfo_url
    /\ \A r \in Roots \ {BANKEX} : calls[<<"sync", r>>].pc = "idle"

\* C29: for a root without rows the values stay the placeholders, and the
\* loop goes on to the next root whether the table has the root, has a list
\* shorter than three for it, or has no entry.
C29_NoRowsKeepsPlaceholders ==
    /\ jx.pc \in {"check", "discover", "bucket", "raised", "returned"} =>
         \A root \in Roots :
             RowsOf(root) = << >> =>
                 /\ jx.out.CURRENT[root] = EmptyBucket
                 /\ jx.out.NEXT[root] = EmptyBucket
                 /\ jx.out.FAR[root] = EmptyBucket
                 /\ jx.out.Expiry[root] = << >>
                 /\ jx.out.LotSize[root] = Undefined
    /\ jx.pc = "raised" => RowsOf(RootOrder[jx.i]) # << >>

\* the call returned although a root without rows has no entry in the table
C29_Witness ==
    /\ jx.pc = "returned"
    /\ \E root \in Roots : RowsOf(root) = << >> /\ root \notin DOMAIN expiry_dates
    /\ jx.out.CURRENT[BANKEX].filled

----------------------------------------------------------------------------
\* The day-scoped caches: load_cache / save_cache of core/brokers/__init__.py
\* and the token cache of AngelOne.

\* a call of load_cache()
LoadCache ==
    /\ main.pc = "caller"
    /\ LET r == load_cache(cache_file, now)
       IN  lc' = [at |-> now, seen |-> cache_file, raised |-> r.raised, hit |-> r.hit,
                  called |-> TRUE]
    /\ UNCHANGED <<now, expiry_dates, cookies, calls, hist, main, cache_file, cache_dir, jx, tok, ft, jp, eq, ff, tp>>

\* save_cache(cache_data) with cache_data built as in initialize_brokers
SaveCache ==
    /\ main.pc = "caller"
    /\ cache_dir' = TRUE
    /\ cache_file' = CacheEntry(now, cookies, expiry_dates)
    /\ UNCHANGED <<now, expiry_dates, cookies, calls, hist, main, lc, jx, tok, ft, jp, eq, ff, tp>>

\* AngelOne._read_cache: None when the file is missing or is no JSON
_read_cache(file) ==
    IF file.kind \in {"nofile", "garbage"} THEN [none |-> TRUE, obj |-> NoTokFile]
    ELSE [none |-> FALSE, obj |-> file]

\* truth value of what _read_cache returned: None and {} are false
Truthy(rc) == ~rc.none /\ rc.obj.kind # "empty"

\* mutant: validity by calendar date
_is_cache_valid_by_date(cache_data, t) ==
    IF ~cache_data.has_ts THEN [raised |-> "KeyError", valid |-> FALSE]
    ELSE [raised |-> "", valid |-> (DateOf(fromisoformat(cache_data.timestamp)) = DateOf(t))]

\* AngelOne._is_cache_valid: less than one day old
_is_cache_valid(cache_data, t) ==
    IF ~cache_data.has_ts THEN [raised |-> "KeyError", valid |-> FALSE]
    ELSE [raised |-> "", valid |-> (t - fromisoformat(cache_data.timestamp) < MinutesPerDay)]

\* what the instrument-master request of _fetch_tokens ends in: fetch raises,
\* _json_parser raises, or a list is decoded
TokLists == {<< >>, <<"row1">>}
TokUpstream ==
    {[error |-> e, data |-> << >>] : e \in {"RequestTimeout", "NetworkError", "BrokerError", "ResponseError"}}
    \cup {[error |-> "", data |-> d] : d \in TokLists}

\* AngelOne._write_cache: open(..., "w") needs the directory
_write_cache(data, t) ==
    [kind |-> "json", has_ts |-> TRUE, timestamp |-> isoformat(t), data |-> data]

\* mutant: a hit refreshes the cache file
CacheHit_rewrites(file, call, cache_data, t) ==
    [file |-> _write_cache(cache_data.data, t),
     last |-> [call EXCEPT !.outcome = "hit", !.wrote = TRUE, !.ret = cache_data.data]]

\* lines 151-152: return cache_data["data"]
CacheHit(file, call, cache_data, t) ==
    [file |-> file, last |-> [call EXCEPT !.outcome = "hit", !.ret = cache_data.data]]

\* mutant: the cache is written before the body is decoded
Download_write_first(file, call, up, dir, t) ==
    IF up.error # "" /\ up.error # "ResponseError"
    THEN [file |-> file,
          last |-> [call EXCEPT !.outcome = "raised", !.error = up.error, !.fetches = 1]]
    ELSE IF ~dir
    THEN [file |-> file,
          last |-> [call EXCEPT !.outcome = "raised", !.error = "FileNotFoundError",
                                !.fetches = 1]]
    ELSE IF up.error # ""
    THEN [file |-> _write_cache(up.data, t),
          last |-> [call EXCEPT !.outcome = "raised", !.error = up.error, !.fetches = 1,
                                !.decodes = 1, !.wrote = TRUE]]
    ELSE [file |-> _write_cache(up.data, t),
          last |-> [call EXCEPT !.outcome = "downloaded", !.fetches = 1, !.decodes = 1,
                                !.wrote = TRUE, !.ret = up.data]]

\* lines 170-177: fetch, _json_parser, _write_cache, return data; an
\* exception of fetch or of _json_parser leaves the function at once
Download(file, call, up, dir, t) ==
    IF up.error # ""
    THEN [file |-> file,
          last |-> [call EXCEPT !.outcome = "raised", !.error = up.error, !.fetches = 1,
                                !.decodes = IF up.error = "ResponseError" THEN 1 ELSE 0]]
    ELSE IF ~dir
    THEN [file |-> file,
          last |-> [call EXCEPT !.outcome = "raised", !.error = "FileNotFoundError",
                                !.fetches = 1, !.decodes = 1]]
    ELSE [file |-> _write_cache(up.data, t),
          last |-> [call EXCEPT !.outcome = "downloaded", !.fetches = 1, !.decodes = 1,
                                !.wrote = TRUE, !.ret = up.data]]

\* a call of AngelOne._fetch_tokens; fetch raises one of its errors,
\* _json_parser raises ResponseError, or the list is decoded
FetchTokens ==
    /\ main.pc = "caller"
    /\ LET rc == _read_cache(tok.file)
           v == _is_cache_valid(rc.obj, now)
           call == [NoFetch EXCEPT !.at = now, !.seen = tok.file]
       IN  IF Truthy(rc) /\ v.raised # ""
           THEN tok' = [tok EXCEPT !.last = [call EXCEPT !.outcome = "raised", !.error = v.raised]]
           ELSE IF Truthy(rc) /\ v.valid
           THEN tok' = CacheHit(tok.file, call, rc.obj, now)
           ELSE \E up \in TokUpstream : tok' = Download(tok.file, call, up, cache_dir, now)
    /\ UNCHANGED <<now, expiry_dates, cookies, calls, hist, main, cache_file, cache_dir, lc, jx, ft, jp, eq, ff, tp>>

\* the files a process may find
FoundCacheFiles ==
    {NoFile, [NoFile EXCEPT !.kind = "garbage"], [NoFile EXCEPT !.kind = "json"]}
    \cup {CacheEntry(t, "jar", [r \in Roots |-> SomeDates]) : t \in Times}
FoundTokFiles ==
    {NoTokFile, [NoTokFile EXCEPT !.kind = "garbage"], [NoTokFile EXCEPT !.kind = "empty"],
     [NoTokFile EXCEPT !.kind = "json"]}
    \cup {_write_cache(<<"old">>, t) : t \in Times}

InitCache ==
    /\ now \in Times
    /\ cache_file \in {f \in FoundCacheFiles : f.timestamp <= now}
    /\ \E f \in FoundTokFiles :
         /\ fromisoformat(f.timestamp) <= now
         /\ tok = [file |-> f, last |-> NoFetch]
    /\ cache_dir \in {d \in BOOLEAN : (cache_file.kind # "nofile" \/ tok.file.kind # "nofile") => d}
    /\ expiry_dates = [r \in Roots |-> SomeDates]
    /\ cookies = "jar"
    /\ calls = [u \in Units |-> IdleCall]
    /\ hist = NoHist
    /\ main = [pc |-> "caller", i |-> 0, requests |-> 0]
    /\ lc = NoLoad
    /\ jx = NoJx
    /\ ft = NoFt
    /\ jp = NoJp
    /\ eq = NoEq
    /\ ff = NoFf
    /\ tp = NoTp

NextCache == LoadCache \/ SaveCache \/ FetchTokens \/ Tick

SpecCache == InitCache /\ [][NextCache]_vars

WellFormed(file) == file.kind = "json" /\ file.has_ts
Malformed(file) == file.kind = "garbage" \/ (file.kind = "json" /\ ~file.has_ts)

C9_LoadCacheByCalendarDay ==
    (lc.called /\ WellFormed(lc.seen)) =>
        /\ lc.raised = ""
        /\ lc.hit <=> DateOf(lc.seen.timestamp) = DateOf(lc.at)

C9_Witness ==
    /\ lc.called
    /\ WellFormed(lc.seen)
    /\ ~lc.hit
    /\ lc.seen.timestamp = MinutesPerDay - 1
    /\ lc.at = MinutesPerDay + 1

\* C10: loading a malformed cache never raises; it signals absent and the
\* caller recomputes.
C10_MalformedIsAbsent ==
    /\ (lc.called /\ Malformed(lc.seen)) => (lc.raised = "" /\ ~lc.hit)
    /\ (tok.last.outcome # "none" /\ Malformed(tok.last.seen)) =>
          (tok.last.fetches = 1 /\ tok.last.error \notin {"KeyError", "JSONDecodeError"})

\* C11: on a token-cache hit _fetch_tokens returns the cached payload and
\* makes no network fetch, decodes no response and leaves the cache file as
\* it found it.
C11_HitTouchesNothing ==
    tok.last.outcome = "hit" =>
        /\ tok.last.ret = tok.last.seen.data
        /\ tok.last.fetches = 0
        /\ tok.last.decodes = 0
        /\ ~tok.last.wrote
        /\ tok.file = tok.last.seen

C11_Witness ==
    /\ tok.last.outcome = "hit"
    /\ tok.last.seen.data = <<"old">>
    /\ tok.last.at > fromisoformat(tok.last.seen.timestamp)

\* the upstream answered the call with a list that was decoded
Answered(call) ==
    call.outcome # "none" /\ call.fetches = 1
        /\ call.error \notin {up.error : up \in TokUpstream} \ {""}

\* the call found no cache file, or an entry that had expired
MissOrExpired(call, t) ==
    \/ call.seen.kind = "nofile"
    \/ WellFormed(call.seen) /\ ~_is_cache_valid(call.seen, t).valid

\* C12: on a miss (no file) or an expired entry, when the upstream answers,
\* _fetch_tokens fetches exactly once, decodes, writes {timestamp: now,
\* data: decoded list} and returns the decoded list.
C12_MissDownloadsAndPersists ==
    (MissOrExpired(tok.last, tok.last.at) /\ Answered(tok.last)) =>
        /\ tok.last.outcome = "downloaded"
        /\ tok.last.fetches = 1
        /\ tok.last.decodes = 1
        /\ tok.last.wrote
        /\ tok.file = _write_cache(tok.last.ret, tok.last.at)

\* C14: a write of the token cache succeeds whether or not the cache
\* directory existed, and every cache file lies in an existing directory.
C14_SaveCreatesDirectory ==
    /\ tok.last.error # "FileNotFoundError"
    /\ tok.last.decodes = 1 /\ tok.last.error = "" => tok.last.wrote
    /\ (cache_file.kind # "nofile" \/ tok.file.kind # "nofile") => cache_dir

----------------------------------------------------------------------------
\* Broker.fetch over the shared session, and the retries of the transport.

\* RETRY_STRATEGY of core/config/network.py
total == 3
status_forcelist == {408, 500, 502, 503, 504}
allowed_methods == {"HEAD", "GET", "OPTIONS"}

Methods == {"GET", "HEAD", "OPTIONS", "POST", "DELETE"}
Schemes == {"https", "http"}
Statuses == {200, 404, 408, 500, 503}

\* mutant: the method of the request is not looked at
is_retry_any_method(method, status) == status \in status_forcelist

\* a response is retried when its status is in status_forcelist and the
\* method is one of allowed_methods
is_retry(method, status) == method \in allowed_methods /\ status \in status_forcelist

\* _create_session mounts the adapter with RETRY_STRATEGY on "https://"; any
\* other URL goes through the adapter the session starts with, which does not
\* retry
Mounted(scheme) == scheme = "https"

\* the classes of the except clauses of fetch, in the order of the clauses
ExceptClauses_connection_first ==
    <<"ConnectionError", "Timeout", "ConnectionResetError", "TooManyRedirects", "SSLError",
      "HTTPError", "RequestException">>

ExceptClauses ==
    <<"Timeout", "ConnectionError", "ConnectionResetError", "TooManyRedirects", "SSLError",
      "HTTPError", "RequestException">>

\* what session.request and raise_for_status raise, and for each kind the
\* classes of the except clauses it is an instance of.  "SSLError" is
\* ssl.SSLError (line 10); the SSLError of requests is a ConnectionError.
ExceptionKinds ==
    {"Timeout", "ConnectTimeout", "ReadTimeout", "ConnectionError", "requests.SSLError",
     "ConnectionResetError", "TooManyRedirects", "ssl.SSLError", "HTTPError", "RetryError",
     "ChunkedEncodingError"}
Bases(kind) ==
    CASE kind = "Timeout" -> {"Timeout", "RequestException"}
      [] kind = "ConnectTimeout" -> {"ConnectionError", "Timeout", "RequestException"}
      [] kind = "ReadTimeout" -> {"Timeout", "RequestException"}
      [] kind = "ConnectionError" -> {"ConnectionError", "RequestException"}
      [] kind = "requests.SSLError" -> {"ConnectionError", "RequestException"}
      [] kind = "ConnectionResetError" -> {"ConnectionResetError"}
      [] kind = "TooManyRedirects" -> {"TooManyRedirects", "RequestException"}
      [] kind = "ssl.SSLError" -> {"SSLError"}
      [] kind = "HTTPError" -> {"HTTPError", "RequestException"}
      [] kind = "RetryError" -> {"RequestException"}
      [] kind = "ChunkedEncodingError" -> {"RequestException"}
      [] OTHER -> {}

\* the text str(exc) is modelled by the marker it contains, if any
NetworkMarkers == {"ECONNRESET", "Connection aborted.", "Connection broken:"}
Markers == {"", "Read timed out"} \cup NetworkMarkers

\* the except clause that catches an exception: the first one whose class
\* the exception is an instance of; 0 when no clause does
Caught(kind) ==
    LET S == {i \in 1..Len(ExceptClauses) : ExceptClauses[i] \in Bases(kind)}
    IN  IF S = {} THEN 0 ELSE CHOOSE i \in S : \A j \in S : i <= j

\* the body of each except clause: the error raised and what its payload
\* holds.  The last clause builds details and raises with exc instead.
Handler(clause, msg, has_response) ==
    CASE clause = "Timeout" ->
           [error |-> "RequestTimeout", payload |-> {"id", "method", "url"}]
      [] clause = "ConnectionError" ->
           [error |-> IF msg = "Read timed out" THEN "RequestTimeout" ELSE "NetworkError",
            payload |-> {"id", "method", "url", "error_string"}]
      [] clause = "ConnectionResetError" ->
           [error |-> "NetworkError", payload |-> {"id", "method", "url"}]
      [] clause = "TooManyRedirects" ->
           [error |-> "BrokerError", payload |-> {"id", "method", "url"}]
      [] clause = "SSLError" ->
           [error |-> "BrokerError", payload |-> {"id", "method", "url"}]
      [] clause = "HTTPError" ->
           [error |-> "BrokerError",
            payload |-> IF has_response THEN {"id", "method", "status_code", "url", "text"}
                        ELSE {"id", "method", "url"}]
      [] clause = "RequestException" ->
           [error |-> IF msg \in NetworkMarkers THEN "NetworkError" ELSE "BrokerError",
            payload |-> {"exc"}]

\* what fetch raises for an exception of the try block; an exception that no
\* clause catches leaves fetch as it is
Translate(kind, msg, has_response) ==
    IF Caught(kind) = 0 THEN [error |-> kind, payload |-> {}]
    ELSE Handler(ExceptClauses[Caught(kind)], msg, has_response)

\* the failures of a request that got no response
Failures ==
    {[status |-> 0, kind |-> k, msg |-> ""] : k \in ExceptionKinds \ {"RetryError"}}
    \cup {[status |-> 0, kind |-> k, msg |-> "Read timed out"] :
            k \in {"ConnectionError", "ConnectTimeout", "requests.SSLError"}}
    \cup {[status |-> 0, kind |-> "ChunkedEncodingError", msg |-> m] : m \in NetworkMarkers}

Raised(call, kind, msg, has_response) ==
    LET t == Translate(kind, msg, has_response)
    IN  [call EXCEPT !.pc = "raised", !.error = t.error, !.payload = t.payload]

\* lines 111-112: if cls._session is None: cls._create_session().  The
\* session that _create_session returns is not assigned.
LazySession(f, ns) ==
    IF f.session[ns] = 0 THEN [f EXCEPT !.created = @ + 1] ELSE f

\* fetch is called: lines 111-116.  cls._session.request on None raises
\* AttributeError, which no except clause catches, before any request call
\* is made; otherwise the one request call of line 116 is made.
FetchCall ==
    /\ ft.call.pc # "sending"
    /\ ft.fetches < MaxFetches
    /\ \E ns \in Namespaces, method \in Methods, scheme \in Schemes :
         LET f == LazySession(ft, ns)
             call == [NoFetchCall EXCEPT !.ns = ns, !.method = method, !.scheme = scheme,
                                         !.session = f.session[ns]]
         IN  ft' = [f EXCEPT !.fetches = @ + 1,
                             !.call = IF f.session[ns] = 0
                                      THEN Raised(call, "AttributeError", "", FALSE)
                                      ELSE [call EXCEPT !.pc = "sending", !.request_calls = 1]]
    /\ UNCHANGED <<now, expiry_dates, cookies, calls, hist, main, cache_file, cache_dir, lc, jx, tok, jp, eq, ff, tp>>

\* the upstream answers with a status: the transport sends again, gives up
\* retrying (the strategy raises on status, which requests turns into
\* RetryError), or hands the response to fetch, whose raise_for_status raises
\* HTTPError for 4xx and 5xx
SendStatus ==
    /\ ft.call.pc = "sending"
    /\ \E status \in Statuses :
         LET c == ft.call
             sent == [c EXCEPT !.sent = @ + 1, !.last = [NoOutcome EXCEPT !.status = status],
                               !.first = IF c.sent = 0 THEN status ELSE @]
         IN  ft' = [ft EXCEPT !.call =
                      IF Mounted(c.scheme) /\ is_retry(c.method, status)
                      THEN IF c.retries < total THEN [sent EXCEPT !.retries = @ + 1]
                           ELSE Raised(sent, "RetryError", "", FALSE)
                      ELSE IF status >= 400 THEN Raised(sent, "HTTPError", "", TRUE)
                      ELSE [sent EXCEPT !.pc = "returned"]]
    /\ UNCHANGED <<now, expiry_dates, cookies, calls, hist, main, cache_file, cache_dir, lc, jx, tok, jp, eq, ff, tp>>

\* the request fails without a response: the exception reaches fetch, or
\* the transport spends one of its retries on it
SendFailure ==
    /\ ft.call.pc = "sending"
    /\ \E failure \in Failures, again \in BOOLEAN :
         LET c == ft.call
             sent == [c EXCEPT !.sent = @ + 1, !.last = failure]
         IN  /\ again => (Mounted(c.scheme) /\ c.retries < total)
             /\ ft' = [ft EXCEPT !.call =
                         IF again THEN [sent EXCEPT !.retries = @ + 1]
                         ELSE Raised(sent, failure.kind, failure.msg, FALSE)]
    /\ UNCHANGED <<now, expiry_dates, cookies, calls, hist, main, cache_file, cache_dir, lc, jx, tok, jp, eq, ff, tp>>

InitFetch ==
    /\ now = 0
    /\ expiry_dates = << >>
    /\ cookies = "none"
    /\ calls = [u \in Units |-> IdleCall]
    /\ hist = NoHist
    /\ main = [pc |-> "caller", i |-> 0, requests |-> 0]
    /\ cache_file = NoFile
    /\ cache_dir = FALSE
    /\ lc = NoLoad
    /\ jx = NoJx
    /\ tok = NoTok
    /\ ft = NoFt
    /\ jp = NoJp
    /\ eq = NoEq
    /\ ff = NoFf
    /\ tp = NoTp

NextFetch == FetchCall \/ SendStatus \/ SendFailure

SpecFetch == InitFetch /\ [][NextFetch]_vars

\* the rules of the error mapping, by what kind of failure the exception is
IsTimeout(kind) == kind \in {"Timeout", "ConnectTimeout", "ReadTimeout"}
IsConnectionError(kind) == kind \in {"ConnectionError", "ConnectTimeout", "requests.SSLError"}
IsTLSFailure(kind) == kind \in {"ssl.SSLError", "requests.SSLError"}
FirstMatchingRule(kind, msg) ==
    IF IsTimeout(kind) THEN "RequestTimeout"
    ELSE IF IsConnectionError(kind) /\ msg = "Read timed out" THEN "RequestTimeout"
    ELSE IF IsConnectionError(kind) THEN "NetworkError"
    ELSE IF kind = "ConnectionResetError" THEN "NetworkError"
    ELSE IF kind = "TooManyRedirects" THEN "BrokerError"
    ELSE IF IsTLSFailure(kind) THEN "BrokerError"
    ELSE IF kind = "HTTPError" THEN "BrokerError"
    ELSE IF msg \in NetworkMarkers THEN "NetworkError"
    ELSE "BrokerError"

\* the exception of the request reached fetch
Failed_fetch == ft.call.pc = "raised" /\ ft.call.last.kind # ""

FetchErrors == {"RequestTimeout", "NetworkError", "BrokerError"}

\* C16: every error raised by fetch carries the broker identifier, the
\* method and the URL of the failed request.
C16_PayloadTagged ==
    (ft.call.pc = "raised" /\ ft.call.error \in FetchErrors) =>
        {"id", "method", "url"} \subseteq ft.call.payload

\* C17: fetch returns the response iff the request completed with a
\* non-error status; for an error status it raises BrokerError whose payload
\* includes the status code, the URL and the body text.
C17_StatusDecidesReturn ==
    /\ ft.call.pc = "returned" => ft.call.last.status \in 1..399
    /\ (ft.call.pc \in {"returned", "raised"} /\ ft.call.last.status \in 1..399) =>
          ft.call.pc = "returned"
    /\ (ft.call.pc \in {"returned", "raised"} /\ ft.call.last.status >= 400) =>
          /\ ft.call.pc = "raised"
          /\ ft.call.error = "BrokerError"
          /\ {"status_code", "url", "text"} \subseteq ft.call.payload

\* C18: a class without a session gets one at its first fetch and keeps it;
\* every fetch uses the session of its class and none fails for want of one.
C18_LazySharedSession ==
    ft.call.pc # "idle" =>
        /\ ft.session[ft.call.ns] # 0
        /\ ft.call.session = ft.session[ft.call.ns]
        /\ ft.call.error # "AttributeError"

----------------------------------------------------------------------------
\* Broker._json_parser.  A body is a sequence of characters; the JSON texts
\* over these characters are numbers and lists.

Chars == {" ", "[", "]", ",", "1", "x"}
Texts == SeqsUpTo(Chars, MaxText)

Number(n) == [type |-> "num", n |-> n, items |-> << >>]
List(items) == [type |-> "list", n |-> 0, items |-> items]

\* str.strip(): the text without its leading and trailing whitespace
RECURSIVE lstrip(_)
lstrip(text) == IF text # << >> /\ Head(text) = " " THEN lstrip(Tail(text)) ELSE text
RECURSIVE rstrip(_)
rstrip(text) ==
    IF text # << >> /\ text[Len(text)] = " " THEN rstrip(SubSeq(text, 1, Len(text) - 1))
    ELSE text
strip(text) == rstrip(lstrip(text))

\* the decoder of json: whitespace is skipped between tokens
RECURSIVE SkipWs(_, _)
SkipWs(text, i) == IF i <= Len(text) /\ text[i] = " " THEN SkipWs(text, i + 1) ELSE i

At_char(text, i) == IF i <= Len(text) THEN text[i] ELSE "end"

NoParse == [ok |-> FALSE, value |-> NoValue, next |-> 0]

RECURSIVE ParseDigits(_, _, _)
ParseDigits(text, i, n) ==
    IF At_char(text, i) = "1" THEN ParseDigits(text, i + 1, 10 * n + 1)
    ELSE [ok |-> TRUE, value |-> Number(n), next |-> i]

RECURSIVE ParseValue(_, _)
RECURSIVE ParseItems(_, _, _)
ParseValue(text, i) ==
    IF At_char(text, i) = "1" THEN ParseDigits(text, i, 0)
    ELSE IF At_char(text, i) = "["
    THEN LET j == SkipWs(text, i + 1)
         IN  IF At_char(text, j) = "]" THEN [ok |-> TRUE, value |-> List(<< >>), next |-> j + 1]
             ELSE ParseItems(text, j, << >>)
    ELSE NoParse

ParseItems(text, i, items) ==
    LET v == ParseValue(text, i)
        k == SkipWs(text, v.next)
    IN  IF ~v.ok THEN NoParse
        ELSE IF At_char(text, k) = "," THEN ParseItems(text, SkipWs(text, k + 1), Append(items, v.value))
        ELSE IF At_char(text, k) = "]"
        THEN [ok |-> TRUE, value |-> List(Append(items, v.value)), next |-> k + 1]
        ELSE NoParse

\* mutant: text after the value is not looked at
loads_prefix(text) ==
    LET v == ParseValue(text, SkipWs(text, 1))
    IN  IF v.ok THEN [raised |-> "", value |-> v.value]
        ELSE [raised |-> "JSONDecodeError", value |-> NoValue]

\* json.loads: one value, and nothing but whitespace after it
loads(text) ==
    LET v == ParseValue(text, SkipWs(text, 1))
    IN  IF v.ok /\ SkipWs(text, v.next) = Len(text) + 1 THEN [raised |-> "", value |-> v.value]
        ELSE [raised |-> "JSONDecodeError", value |-> NoValue]

\* _json_parser(response): loads(response.text.strip()), and ResponseError
\* for JSONDecodeError
JsonParser ==
    /\ jp.pc = "given"
    /\ LET r == loads(strip(jp.body))
       IN  jp' = IF r.raised = ""
                 THEN [jp EXCEPT !.pc = "returned", !.value = r.value]
                 ELSE [jp EXCEPT !.pc = "raised", !.error = "ResponseError",
                                 !.tags = {"Status", "Error: Invalid JSON in response",
                                           "URL", "Reason"}]
    /\ UNCHANGED <<now, expiry_dates, cookies, calls, hist, main, cache_file, cache_dir, lc, jx, tok, ft, eq, ff, tp>>

InitParser ==
    /\ now = 0
    /\ expiry_dates = << >>
    /\ cookies = "none"
    /\ calls = [u \in Units |-> IdleCall]
    /\ hist = NoHist
    /\ main = [pc |-> "caller", i |-> 0, requests |-> 0]
    /\ cache_file = NoFile
    /\ cache_dir = FALSE
    /\ lc = NoLoad
    /\ jx = NoJx
    /\ tok = NoTok
    /\ ft = NoFt
    /\ \E body \in Texts : jp = [NoJp EXCEPT !.pc = "given", !.body = body]
    /\ eq = NoEq
    /\ ff = NoFf
    /\ tp = NoTp

NextParser == JsonParser

SpecParser == InitParser /\ [][NextParser]_vars

\* the JSON text of a value, written without whitespace
RECURSIVE Ones(_)
Ones(n) == IF n = 0 THEN << >> ELSE Append(Ones(n \div 10), "1")
RECURSIVE Render(_)
RECURSIVE RenderItems(_)
Render(v) ==
    IF v.type = "num" THEN Ones(v.n) ELSE <<"[">> \o RenderItems(v.items) \o <<"]">>
RenderItems(items) ==
    IF items = << >> THEN << >>
    ELSE IF Len(items) = 1 THEN Render(items[1])
    ELSE Render(items[1]) \o <<",">> \o RenderItems(Tail(items))

Spaces(n) == [i \in 1..n |-> " "]
Without(text, c) == SelectSeq(text, LAMBDA x : x # c)
Occurrences(text, c) == Len(SelectSeq(text, LAMBDA x : x = c))

\* some JSON values whose text fits a body
SampleValues ==
    {Number(1), Number(11), List(<< >>), List(<<Number(1)>>), List(<<Number(1), Number(1)>>),
     List(<<List(<< >>)>>)}

\* C20: _json_parser returns the parsed value for a body that is valid JSON
\* after trimming, and raises ResponseError tagged 'Invalid JSON in
\* response' with status, URL and reason for an empty, whitespace-only,
\* truncated or plain-text body; it returns no sentinel and lets no decode
\* exception escape.
C20_JsonParser ==
    jp.pc \in {"returned", "raised"} =>
        /\ jp.pc = "returned" => (jp.value # NoValue /\ Render(jp.value) = Without(jp.body, " "))
        /\ jp.pc = "raised" =>
             (jp.error = "ResponseError"
                /\ {"Status", "Error: Invalid JSON in response", "URL", "Reason"} \subseteq jp.tags)
        /\ \A v \in SampleValues, l \in 0..MaxText, r \in 0..MaxText :
             jp.body = Spaces(l) \o Render(v) \o Spaces(r) => (jp.pc = "returned" /\ jp.value = v)
        /\ Without(jp.body, " ") = << >> => jp.pc = "raised"
        /\ Occurrences(jp.body, "x") > 0 => jp.pc = "raised"
        /\ Occurrences(jp.body, "[") # Occurrences(jp.body, "]") => jp.pc = "raised"

C20_Witness ==
    /\ jp.pc = "returned"
    /\ jp.body = <<" ", "[", "1", "]">>
    /\ jp.value = List(<<Number(1)>>)

----------------------------------------------------------------------------
\* AngelOne.create_eq_tokens.  json_list is what _fetch_tokens returned: a
\* list of instrument records.  The token of a record is a digit string that
\* differs from row to row; tick_size may be missing from a record.

NSE == "NSE"
BSE == "BSE"
Symbols == {"AAPL-EQ", "MSFT-EQ", "MSFT"}
Names == {"APPLE", "ALPHABET"}
RawTicks == {500, 1000}

\* str.endswith("-EQ")
endswith_EQ(symbol) == symbol \in {"AAPL-EQ", "MSFT-EQ"}

InstrShapes ==
    [symbol : Symbols, name : Names, exch_seg : {NSE, BSE}, has_tick : {TRUE}, tick_size : RawTicks]
    \cup [symbol : Symbols, name : Names, exch_seg : {NSE, BSE}, has_tick : {FALSE}, tick_size : {0}]

MakeInstr(shape, i) ==
    [token |-> <<1, i>>, symbol |-> shape.symbol, name |-> shape.name, lotsize |-> "1",
     exch_seg |-> shape.exch_seg, has_tick |-> shape.has_tick, tick_size |-> shape.tick_size]

JsonLists ==
    {[i \in 1..Len(sh) |-> MakeInstr(sh[i], i)] : sh \in SeqsUpTo(InstrShapes, MaxInstr)}

\* astype(int) of a digit string
RECURSIVE astype_int(_)
astype_int(digits) ==
    IF digits = << >> THEN 0
    ELSE 10 * astype_int(SubSeq(digits, 1, Len(digits) - 1)) + digits[Len(digits)]

RECURSIVE GCD(_, _)
GCD(a, b) == IF b = 0 THEN a ELSE GCD(b, a % b)

\* a decimal number is kept as a fraction in lowest terms; NaN is the value
\* pandas gives a record without the field
Fraction(n, d) == [nan |-> FALSE, num |-> n \div GCD(n, d), den |-> d \div GCD(n, d)]
NaN == [nan |-> TRUE, num |-> 0, den |-> 1]

\* mutant: the raw value is kept
tick_size_raw(row) == IF row.has_tick THEN Fraction(row.tick_size, 1) ELSE NaN

\* line 231: df["tick_size"].astype(float) / 100
tick_size_scaled(row) == IF row.has_tick THEN Fraction(row.tick_size, 100) ELSE NaN

\* the renamed columns of df_bse and df_nse, Token as int
Renamed(row) ==
    [Index |-> row.name, Symbol |-> row.symbol, Token |-> astype_int(row.token),
     TickSize |-> tick_size_scaled(row), LotSize |-> row.lotsize, Exchange |-> row.exch_seg]

\* mutant: keep="last"
RECURSIVE drop_duplicates_keep_last(_, _)
drop_duplicates_keep_last(rows, subset) ==
    IF rows = << >> THEN << >>
    ELSE LET rest == drop_duplicates_keep_last(Tail(rows), subset)
         IN  IF \E k \in 1..Len(rest) : rest[k][subset] = Head(rows)[subset] THEN rest
             ELSE <<Head(rows)>> \o rest

\* drop_duplicates(subset=[...], keep="first")
RECURSIVE drop_duplicates(_, _)
drop_duplicates(rows, subset) ==
    IF rows = << >> THEN << >>
    ELSE LET front == drop_duplicates(SubSeq(rows, 1, Len(rows) - 1), subset)
             x == rows[Len(rows)]
         IN  IF \E k \in 1..Len(front) : front[k][subset] = x[subset] THEN front
             ELSE Append(front, x)

\* set_index(column) and to_dict(orient="index"); the Index column of df_nse
\* is dropped, df_bse has none
to_dict(rows, index) ==
    [k \in {rows[i][index] : i \in 1..Len(rows)} |->
        LET row == CHOOSE r \in Range(rows) : r[index] = k
        IN  [Symbol |-> row.Symbol, Token |-> row.Token, TickSize |-> row.TickSize,
             LotSize |-> row.LotSize, Exchange |-> row.Exchange]]

bse_table(json_list) ==
    to_dict(drop_duplicates(Map(SelectSeq(json_list, LAMBDA row : row.exch_seg = BSE), Renamed),
                            "Symbol"), "Symbol")

nse_table(json_list) ==
    to_dict(drop_duplicates(Map(SelectSeq(json_list, LAMBDA row : endswith_EQ(row.symbol)), Renamed),
                            "Index"), "Index")

\* mutant: an empty list is not looked for
Validate_columns_only(json_list) ==
    IF \A i \in 1..Len(json_list) : ~json_list[i].has_tick
    THEN "Required 'tick_size' column not found in fetched data."
    ELSE ""

\* lines 220-229: the message of the TokenDownloadError raised, "" if none.
\* The columns of the data frame are the fields of all the records.
Validate(json_list) ==
    IF json_list = << >> THEN "No data fetched from AngelOne API."
    ELSE IF \A i \in 1..Len(json_list) : ~json_list[i].has_tick
    THEN "Required 'tick_size' column not found in fetched data."
    ELSE ""

CreateEqTokens ==
    /\ eq.pc = "called"
    /\ LET message == Validate(eq.json_list)
       IN  eq' = IF message # ""
                 THEN [eq EXCEPT !.pc = "raised", !.error = "TokenDownloadError",
                                 !.message = message]
                 ELSE [eq EXCEPT !.pc = "returned",
                                 !.eq_tokens = Put(Put(@, NSE, nse_table(eq.json_list)),
                                                   BSE, bse_table(eq.json_list))]
    /\ UNCHANGED <<now, expiry_dates, cookies, calls, hist, main, cache_file, cache_dir, lc, jx, tok, ft, jp, ff, tp>>

\* eq_tokens before the call: the empty class attribute, or the tables of an
\* earlier call
EarlierEqTokens == {<< >>, Put(Put(<< >>, NSE, << >>), BSE, << >>)}

InitEq ==
    /\ now = 0
    /\ expiry_dates = << >>
    /\ cookies = "none"
    /\ calls = [u \in Units |-> IdleCall]
    /\ hist = NoHist
    /\ main = [pc |-> "caller", i |-> 0, requests |-> 0]
    /\ cache_file = NoFile
    /\ cache_dir = FALSE
    /\ lc = NoLoad
    /\ jx = NoJx
    /\ tok = NoTok
    /\ ft = NoFt
    /\ jp = NoJp
    /\ ff = NoFf
    /\ \E json_list \in JsonLists, before \in EarlierEqTokens :
         eq = [NoEq EXCEPT !.pc = "called", !.json_list = json_list, !.eq_tokens = before,
                           !.before = before]
    /\ tp = NoTp

NextEq == CreateEqTokens

SpecEq == InitEq /\ [][NextEq]_vars

\* the rows create_eq_tokens selects for an exchange and the key it files
\* them under
SelectedFor(ex, row) == IF ex = BSE THEN row.exch_seg = BSE ELSE endswith_EQ(row.symbol)
KeyFor(ex, row) == IF ex = BSE THEN row.symbol ELSE row.name
FirstRowFor(ex, k) ==
    CHOOSE i \in 1..Len(eq.json_list) :
        /\ SelectedFor(ex, eq.json_list[i]) /\ KeyFor(ex, eq.json_list[i]) = k
        /\ \A j \in 1..(i - 1) :
             ~(SelectedFor(ex, eq.json_list[j]) /\ KeyFor(ex, eq.json_list[j]) = k)
NoTickSizeField == \A i \in 1..Len(eq.json_list) : ~eq.json_list[i].has_tick

\* C21: an empty instrument list fails with TokenDownloadError "No data
\* fetched from AngelOne API.", a non-empty list in which no record has a
\* tick_size fails with a TokenDownloadError naming tick_size, and in both
\* cases eq_tokens is what it was before the call.
C21_EqTokensValidation ==
    eq.pc \in {"raised", "returned"} =>
        /\ eq.json_list = << >> =>
             /\ eq.pc = "raised" /\ eq.error = "TokenDownloadError"
             /\ eq.message = "No data fetched from AngelOne API."
             /\ eq.eq_tokens = eq.before
        /\ (eq.json_list # << >> /\ NoTickSizeField) =>
             /\ eq.pc = "raised" /\ eq.error = "TokenDownloadError"
             /\ eq.message = "Required 'tick_size' column not found in fetched data."
             /\ eq.eq_tokens = eq.before
        /\ eq.pc = "raised" => (eq.json_list = << >> \/ NoTickSizeField)

C21_Witness ==
    /\ eq.pc = "raised" /\ eq.json_list = << >>
    /\ eq.before # << >> /\ eq.eq_tokens = eq.before

\* C22: the BSE table holds one record per symbol of the rows whose exchange
\* segment is BSE, the NSE table one record per display name of the rows
\* whose symbol ends in "-EQ", and the record kept for a key comes from the
\* first such row of the list.
C22_FirstRowKept ==
    eq.pc = "returned" =>
        \A ex \in {NSE, BSE} :
            /\ DOMAIN eq.eq_tokens[ex] =
                 {KeyFor(ex, eq.json_list[i]) :
                    i \in {j \in 1..Len(eq.json_list) : SelectedFor(ex, eq.json_list[j])}}
            /\ \A k \in DOMAIN eq.eq_tokens[ex] :
                 LET row == eq.json_list[FirstRowFor(ex, k)]
                     rec == eq.eq_tokens[ex][k]
                 IN  /\ rec.Symbol = row.symbol
                     /\ rec.Token = 10 * row.token[1] + row.token[2]
                     /\ rec.Exchange = row.exch_seg
                     /\ DOMAIN rec = {"Symbol", "Token", "TickSize", "LotSize", "Exchange"}

\* two BSE rows with one symbol, or two "-EQ" rows with one display name
C22_Witness ==
    /\ eq.pc = "returned"
    /\ \E ex \in {NSE, BSE} : \E i, j \in 1..Len(eq.json_list) :
         /\ i < j
         /\ SelectedFor(ex, eq.json_list[i]) /\ SelectedFor(ex, eq.json_list[j])
         /\ KeyFor(ex, eq.json_list[i]) = KeyFor(ex, eq.json_list[j])
         /\ eq.eq_tokens[ex][KeyFor(ex, eq.json_list[i])].Token = astype_int(eq.json_list[i].token)

\* C23: in every record of the tables Token is the integer the row's token
\* string spells and TickSize is the row's raw tick_size divided by 100.
C23_TokenAndTickSize ==
    eq.pc = "returned" =>
        \A ex \in {NSE, BSE} : \A k \in DOMAIN eq.eq_tokens[ex] :
            LET row == eq.json_list[FirstRowFor(ex, k)]
                rec == eq.eq_tokens[ex][k]
            IN  /\ rec.Token \in Int
                /\ rec.Token = 10 * row.token[1] + row.token[2]
                /\ row.has_tick =>
                     /\ ~rec.TickSize.nan
                     /\ rec.TickSize.num * 100 = row.tick_size * rec.TickSize.den

\* a raw tick size of 500 has become 5
C23_Witness ==
    /\ eq.pc = "returned"
    /\ \E ex \in {NSE, BSE} : \E k \in DOMAIN eq.eq_tokens[ex] :
         /\ eq.json_list[FirstRowFor(ex, k)].tick_size = 500
         /\ eq.eq_tokens[ex][k].TickSize = [nan |-> FALSE, num |-> 5, den |-> 1]
         /\ eq.eq_tokens[ex][k].Token = 10 + FirstRowFor(ex, k)

----------------------------------------------------------------------------
\* Broker.filter_future_dates called on its own.  An input is a date string:
\* one that parses to a moment (a date-only string to midnight), or one that
\* to_datetime coerces to NaT.

FilterInputs == SeqsUpTo({NaT} \cup Times, MaxDates)

FilterFutureDates ==
    /\ ff.pc = "called"
    /\ LET out == filter_future_dates(ff.data, now)
       IN  ff' = [ff EXCEPT !.pc = IF out.raised THEN "raised" ELSE "returned",
                            !.at = now, !.error = out.error, !.value = out.value]
    /\ UNCHANGED <<now, expiry_dates, cookies, calls, hist, main, cache_file, cache_dir, lc, jx, tok, ft, jp, eq, tp>>

InitFilter ==
    /\ now = 0
    /\ expiry_dates = << >>
    /\ cookies = "none"
    /\ calls = [u \in Units |-> IdleCall]
    /\ hist = NoHist
    /\ main = [pc |-> "caller", i |-> 0, requests |-> 0]
    /\ cache_file = NoFile
    /\ cache_dir = FALSE
    /\ lc = NoLoad
    /\ jx = NoJx
    /\ tok = NoTok
    /\ ft = NoFt
    /\ jp = NoJp
    /\ eq = NoEq
    /\ \E data \in FilterInputs : ff = [NoFf EXCEPT !.pc = "called", !.data = data]
    /\ tp = NoTp

NextFilter == FilterFutureDates \/ Tick

SpecFilter == InitFilter /\ [][NextFilter]_vars

\* the kinds of core/brokers/base/errors.py
ErrorKind ==
    {"InputError", "ResponseError", "TokenDownloadError", "RequestTimeout", "NetworkError",
     "BrokerError"}

AllParse == \A i \in 1..Len(ff.data) : ff.data[i] # NaT

\* C24: when every input date parses, filter_future_dates returns the dates
\* of the inputs that are >= the moment of the call, each as often as it
\* occurs among those inputs, in ascending order; when an input does not
\* parse it raises and returns nothing.
C24_FutureDatesFiltered ==
    ff.pc \in {"returned", "raised"} =>
        IF AllParse
        THEN /\ ff.pc = "returned"
             /\ IsSorted(ff.value)
             /\ \A d \in Days \cup Range(ff.value) :
                  Count(ff.value, d) =
                    Cardinality({i \in 1..Len(ff.data) :
                                   ff.data[i] >= ff.at /\ DateOf(ff.data[i]) = d})
        ELSE ff.pc = "raised" /\ ff.value = << >>

\* a past date is left out and a date is returned twice
C24_Witness ==
    /\ ff.pc = "returned"
    /\ \E i \in 1..Len(ff.data) : ff.data[i] < ff.at
    /\ \E d \in Range(ff.value) : Count(ff.value, d) = 2

\* C25 as stated: the failure for an input that does not parse is an InputError.
C25_RaisesInputError ==
    ff.pc = "raised" => ff.error = "InputError"

\* C25: the failure for an input that does not parse is the built-in
\* ValueError, which is none of the kinds of the errors module.
C25_RaisesValueError ==
    /\ ff.pc = "raised" => (ff.error = "ValueError" /\ ff.error \notin ErrorKind)
    /\ (ff.pc \in {"returned", "raised"} /\ ~AllParse) => ff.pc = "raised"

\* a future date next to a string that is no date
C25_Witness ==
    /\ ff.pc = "raised" /\ ff.error = "ValueError"
    /\ \E i, j \in 1..Len(ff.data) : ff.data[i] = NaT /\ ff.data[j] > ff.at

\* C30: every invocation of fetch makes exactly one request call on the
\* session, whether the call returns or raises.
C30_OneRequestCall ==
    ft.call.pc \in {"returned", "raised"} => ft.call.request_calls = 1

----------------------------------------------------------------------------
\* C31: _fetch_tokens writes the token cache only after the download and
\* the decode succeeded: when fetch raises, the error is one of fetch's
\* kinds, when _json_parser raises it is ResponseError, and in both cases
\* the cache file is the one the call found; what is written is the decoded
\* list under the moment of the call.
C31_WriteAfterDecode ==
    tok.last.outcome # "none" =>
        /\ (tok.last.outcome = "raised" /\ tok.last.fetches = 1 /\ tok.last.decodes = 0) =>
             /\ tok.last.error \in FetchErrors
             /\ tok.file = tok.last.seen /\ ~tok.last.wrote
        /\ (tok.last.outcome = "raised" /\ tok.last.decodes = 1
              /\ tok.last.error # "FileNotFoundError") =>
             /\ tok.last.error = "ResponseError"
             /\ tok.file = tok.last.seen /\ ~tok.last.wrote
        /\ tok.file # tok.last.seen => tok.last.wrote
        /\ tok.last.wrote =>
             /\ tok.last.outcome = "downloaded" /\ tok.last.error = ""
             /\ tok.last.fetches = 1 /\ tok.last.decodes = 1
             /\ tok.last.ret \in TokLists
             /\ tok.file = _write_cache(tok.last.ret, tok.last.at)

\* the decode failed over an expired entry, which is still the file
C31_Witness ==
    /\ tok.last.outcome = "raised" /\ tok.last.error = "ResponseError"
    /\ tok.last.seen.data = <<"old">> /\ tok.file = tok.last.seen
    /\ cache_dir

\* C32: an entry of the expiry table that a discovery step writes is sorted
\* ascending and holds only dates that are >= the moment of the step, and
\* no other step changes an entry.
C32_StoredEntriesFiltered ==
    [][\A r \in Roots :
         LET written == \E k \in Kinds : calls[<<k, r>>].result = "none"
                                          /\ calls'[<<k, r>>].result = "stored"
             changed == /\ r \in DOMAIN expiry_dates'
                        /\ (r \in DOMAIN expiry_dates => expiry_dates'[r] # expiry_dates[r])
         IN  /\ changed => written
             /\ written =>
                  /\ r \in DOMAIN expiry_dates'
                  /\ IsSorted(expiry_dates'[r])
                  /\ \A i \in 1..Len(expiry_dates'[r]) : Midnight(expiry_dates'[r][i]) >= now
      ]_vars

\* the body held a date that was not stored next to one that was
C32_Witness ==
    \E u \in Units :
        /\ calls[u].result = "stored"
        /\ expiry_dates[RootOf(u)] # << >>
        /\ LET body == hist[u][Len(hist[u])].resp.dates
           IN  \E i \in 1..Len(body) : DateOf(body[i]) \notin Range(expiry_dates[RootOf(u)])

----------------------------------------------------------------------------
\* Progress of process initialization, for a process that starts at
\* midnight of day 0 and finds no cache file.  A started thread is scheduled
\* again and again, every request of a thread returns or times out, and the
\* main thread goes on when the join it waits in can return.
ThreadStep == ThreadPrimary \/ ThreadFallback \/ ThreadSleep

InitLive == Init /\ now = 0 /\ cache_file = NoFile

\* initialization is over within the day it started
LiveTick == Pass({MinutesPerDay - 1})

NextLive ==
    \/ InitLoad
    \/ InitCookies
    \/ InitStart
    \/ InitJoin
    \/ InitSave
    \/ CoreCookies
    \/ CoreCheck
    \/ CoreStart
    \/ ThreadPrimary
    \/ ThreadFallback
    \/ ThreadSleep
    \/ LiveTick

SpecLive ==
    /\ InitLive /\ [][NextLive]_vars
    /\ WF_vars(ThreadStep)
    /\ WF_vars(InitJoin)
    /\ WF_vars(InitSave)

\* C33: every discovery thread that was started terminates, so from some
\* moment on no thread is running, and once initialize_brokers has started
\* its threads the joins are passed and the cache is saved, also when every
\* request fails.
C33_ThreadsTerminate ==
    /\ <>[](\A u \in Units : ~Running(calls[u]))
    /\ (main.pc = "init_join") ~> (main.pc = "core_cookies" /\ cache_file.kind = "json")

\* the cache was saved after every thread gave up
C33_Witness ==
    /\ main.pc = "core_cookies" /\ lc.called /\ ~lc.hit
    /\ \A r \in ThreadRoots : calls[<<"init", r>>].result = "gaveup"
    /\ cache_file = CacheEntry(cache_file.timestamp, "jar", << >>)

----------------------------------------------------------------------------
\* C34: a step of a discovery call for a root leaves the cookie jar and the
\* entries of all other roots as they are, whatever the other calls are
\* doing.
C34_CallWritesOwnEntry ==
    [][\A u \in Units :
         (calls[u].pc # "idle" /\ calls'[u] # calls[u]) =>
            /\ cookies' = cookies
            /\ \A r \in Roots \ {RootOf(u)} :
                 /\ (r \in DOMAIN expiry_dates') = (r \in DOMAIN expiry_dates)
                 /\ r \in DOMAIN expiry_dates => expiry_dates'[r] = expiry_dates[r]
      ]_vars

\* two threads have stored at different moments and both entries are there
C34_Witness ==
    \E u, v \in Units :
        /\ RootOf(u) # RootOf(v)
        /\ calls[u].result = "stored" /\ calls[v].result = "stored"
        /\ expiry_dates[RootOf(u)] = <<MaxDay>> /\ expiry_dates[RootOf(v)] = << >>
        /\ cookies = "jar"

----------------------------------------------------------------------------
\* C35: a fetch call that fails raises RequestTimeout, NetworkError or
\* BrokerError, whatever the session is and whatever the request raised.
C35_OnlyFetchErrors ==
    ft.call.pc = "raised" => ft.call.error \in FetchErrors

----------------------------------------------------------------------------
\* C36: every record create_eq_tokens stores under an exchange has that
\* exchange in its Exchange field.
C36_ExchangeMatchesTable ==
    eq.pc = "returned" =>
        \A ex \in {NSE, BSE} : \A k \in DOMAIN eq.eq_tokens[ex] :
            eq.eq_tokens[ex][k].Exchange = ex

\* C37: _fetch_tokens never answers from the cache with an empty list.
C37_EmptyNeverServed ==
    tok.last.outcome = "hit" => tok.last.ret # << >>

----------------------------------------------------------------------------
\* C38: the cache file initialize_brokers has written holds an entry for
\* every root a discovery thread was started for.
C38_PersistedTableComplete ==
    (lc.called /\ cache_file # lc.seen) =>
        ThreadRoots \subseteq DOMAIN cache_file.expiry_dates

----------------------------------------------------------------------------
\* Broker.generate_verified_totp.  A base is a string of characters; the
\* bases tried are the short strings and the strings of eight characters
\* that end a base32 stem in any two characters.

TotpChars == {"A", "a", "7", "1", "="}
TotpStem == <<"J", "B", "S", "W", "Y", "3">>
TotpBases ==
    SeqsUpTo(TotpChars, MaxBase) \cup {TotpStem \o tail : tail \in [1..2 -> TotpChars]}

\* the default of max_attempts
DefaultMaxAttempts == 3

\* base64._b32alphabet
b32alphabet ==
    {"A", "B", "C", "D", "E", "F", "G", "H", "I", "J", "K", "L", "M", "N", "O", "P", "Q", "R",
     "S", "T", "U", "V", "W", "X", "Y", "Z", "2", "3", "4", "5", "6", "7"}

\* str.upper() of a character of TotpChars or of the stem
upper(c) == IF c = "a" THEN "A" ELSE c

RECURSIVE rstrip_pad(_)
rstrip_pad(s) ==
    IF s # << >> /\ s[Len(s)] = "=" THEN rstrip_pad(SubSeq(s, 1, Len(s) - 1)) ELSE s

\* base64.b32decode(s, casefold=True): TRUE when it returns, FALSE when it
\* raises binascii.Error, a ValueError
b32decode(s) ==
    LET folded == Map(s, upper)
        digits == rstrip_pad(folded)
        padchars == Len(folded) - Len(digits)
    IN  /\ Len(s) % 8 = 0
        /\ \A i \in 1..Len(digits) : digits[i] \in b32alphabet
        /\ padchars \in {0, 1, 3, 4, 6}

\* lines 252-258: the checks before the loop
TotpValidate ==
    /\ tp.pc = "called"
    /\ tp' = IF tp.totpbase = << >> \/ ~b32decode(tp.totpbase)
             THEN [tp EXCEPT !.pc = "raised", !.error = "ValueError",
                             !.message = [text |-> "Invalid TOTP base", attempts |-> 0]]
             ELSE [tp EXCEPT !.pc = "loop"]
    /\ UNCHANGED <<now, expiry_dates, cookies, calls, hist, main, cache_file, cache_dir, lc, jx, tok, ft, jp, eq, ff>>

\* mutant: the loop is range(max_attempts + 1)
TotpAttempt_one_more ==
    /\ tp.pc = "loop"
    /\ IF tp.generated < tp.max_attempts + 1
       THEN \E verify \in BOOLEAN :
              tp' = IF verify
                    THEN [tp EXCEPT !.pc = "returned", !.generated = @ + 1, !.verified = @ + 1]
                    ELSE [tp EXCEPT !.generated = @ + 1, !.verified = @ + 1, !.failed = @ + 1]
       ELSE tp' = [tp EXCEPT !.pc = "raised", !.error = "ValueError",
                             !.message = [text |-> "Unable to generate a valid TOTP after",
                                          attempts |-> tp.max_attempts]]
    /\ UNCHANGED <<now, expiry_dates, cookies, calls, hist, main, cache_file, cache_dir, lc, jx, tok, ft, jp, eq, ff>>

\* lines 259-268: one iteration of range(max_attempts), a code is generated
\* and verified and returned if it verifies; after the loop ValueError
TotpAttempt ==
    /\ tp.pc = "loop"
    /\ IF tp.generated < tp.max_attempts
       THEN \E verify \in BOOLEAN :
              tp' = IF verify
                    THEN [tp EXCEPT !.pc = "returned", !.generated = @ + 1, !.verified = @ + 1]
                    ELSE [tp EXCEPT !.generated = @ + 1, !.verified = @ + 1, !.failed = @ + 1]
       ELSE tp' = [tp EXCEPT !.pc = "raised", !.error = "ValueError",
                             !.message = [text |-> "Unable to generate a valid TOTP after",
                                          attempts |-> tp.max_attempts]]
    /\ UNCHANGED <<now, expiry_dates, cookies, calls, hist, main, cache_file, cache_dir, lc, jx, tok, ft, jp, eq, ff>>

InitTotp ==
    /\ now = 0
    /\ expiry_dates = << >>
    /\ cookies = "none"
    /\ calls = [u \in Units |-> IdleCall]
    /\ hist = NoHist
    /\ main = [pc |-> "caller", i |-> 0, requests |-> 0]
    /\ cache_file = NoFile
    /\ cache_dir = FALSE
    /\ lc = NoLoad
    /\ jx = NoJx
    /\ tok = NoTok
    /\ ft = NoFt
    /\ jp = NoJp
    /\ eq = NoEq
    /\ ff = NoFf
    /\ \E totpbase \in TotpBases, max_attempts \in {DefaultMaxAttempts} \cup (0..MaxTries) :
         tp = [NoTp EXCEPT !.pc = "called", !.totpbase = totpbase, !.max_attempts = max_attempts]

NextTotp == TotpValidate \/ TotpAttempt

SpecTotp == InitTotp /\ [][NextTotp]_vars

\* a base that is not empty and is base32 text: whole groups of eight
\* characters of the alphabet in either case, padded at the end only
ValidBase(s) ==
    /\ s # << >>
    /\ Len(s) % 8 = 0
    /\ \E n \in {0, 1, 3, 4, 6} :
         /\ n < Len(s)
         /\ \A i \in 1..Len(s) :
              IF i > Len(s) - n THEN s[i] = "="
              ELSE s[i] \in b32alphabet \/ s[i] = "a"

\* C39: with a valid base at most max_attempts codes are generated and
\* verified, the first code that verifies is returned at once, and when
\* none verifies ValueError names max_attempts; with an empty base or one
\* that is not base32 ValueError is raised before any code is generated.
C39_VerifiedTotp ==
    /\ tp.generated <= tp.max_attempts /\ tp.verified = tp.generated
    /\ tp.pc = "loop" => (ValidBase(tp.totpbase) /\ tp.failed = tp.generated)
    /\ tp.pc = "returned" =>
         /\ ValidBase(tp.totpbase)
         /\ tp.failed = tp.generated - 1
    /\ tp.pc = "raised" =>
         /\ tp.error = "ValueError"
         /\ IF ValidBase(tp.totpbase)
            THEN /\ tp.failed = tp.max_attempts /\ tp.generated = tp.max_attempts
                 /\ tp.message = [text |-> "Unable to generate a valid TOTP after",
                                  attempts |-> tp.max_attempts]
            ELSE /\ tp.generated = 0
                 /\ tp.message = [text |-> "Invalid TOTP base", attempts |-> 0]

\* the second code verified, under the default of three attempts
C39_Witness ==
    /\ tp.pc = "returned" /\ tp.max_attempts = DefaultMaxAttempts
    /\ tp.generated = 2 /\ tp.failed = 1
    /\ tp.totpbase[8] = "a"

====
